---- MODULE Spec2Model ----
(***************************************************************************)
(* Model of the watch -> classify -> debounce -> notify pipeline of        *)
(* wazzup: src/watch/watcher.rs, src/watch/debouncer.rs, src/watch/mod.rs  *)
(* and src/server/mod.rs.                                                  *)
(*                                                                         *)
(* Paths are sequences of components, as std::path::Path compares them     *)
(* (Path::eq, Path::starts_with and Path::strip_prefix are component-wise).*)
(* Each subsystem has its own specification over the shared variables; a   *)
(* specification keeps the variables of the other subsystems at their      *)
(* initial values.                                                         *)
(***************************************************************************)
EXTENDS Integers, Sequences, FiniteSets, TLC

VARIABLES
    cpath,      \* classifier: the absolute path handed to to_build_trigger
    cres,       \* classifier: the Option<ChangeType> returned, or Unset
    now,        \* the clock (Instant::now), in ticks of one sweep interval
    change_ch,  \* the change channel watcher -> debouncer (flume::bounded)
    out_ch,     \* the debouncer's output channel (flume::bounded)
    dpc,        \* debouncer worker: "wait", "flush", "send" or "done"
    dWait,      \* debouncer: the instant its current wait_timeout began
    changes,    \* EventDebouncer.changes: HashMap<ChangeType, Instant>
    expired,    \* debouncer: the expired changes of the sweep, not yet flushed
    dsending,   \* debouncer: the change it is sending on out_ch, or Unset
    dShutdown,  \* debouncer's shutdown channel: "none", "requested", "taken"
    nFed,       \* history: changes put on change_ch so far
    firstRecv,  \* history: per change, the instant of its first reception
                \* (meaningful once nRecv is positive)
    lastRecv,   \* history: per change, the instant of its latest reception
    nRecv,      \* history: per change, the receptions by the debouncer
    nEmit,      \* history: per change, the emissions on out_ch
    owed,       \* history: per change, receptions made after every earlier
                \* owed emission had gone out
    fs,         \* the file system below the project: path -> "none", "file", "dir"
    watched,    \* the paths registered with ProjectWatcher.watcher
    notify_rx,  \* the channel of raw events from notify (flume::bounded)
    wpc,        \* watcher worker: "select", "forward", "send" or "done"
    wcur,       \* watcher: the event being handled, then the last one handled
    wnext,      \* watcher: index in wcur.paths of the next path to forward
    wsending,   \* watcher: the change it is sending on change_ch, or Unset
    wShutdown,  \* watcher's shutdown channel: "none", "requested", "taken"
    nOps,       \* history: file system operations so far
    unseen,     \* history: an operation changed a directory without a watch
    wbefore,    \* history: the watch set when wcur was taken
    wsent,      \* history: the changes sent for wcur, in order
    wdropped,   \* history: indices of the paths of wcur the forward filter dropped
    wskipped,   \* history: paths of wcur that add_paths skipped as ignored
    wfailed,    \* history: paths of wcur whose registration returned an error
    version,    \* the reload channel (tokio watch): version of its value
    rclosed,    \* the reload channel's sender is dropped
    sShutdown,  \* the server's Shutdown signal is raised
    cst,        \* per client: "idle", "upgrade", "select", "send" or "done"
    cseen,      \* per client: the version its watch::Receiver has marked seen
    cclosed,    \* per client: the client has closed its end of the socket
    cframes,    \* history: per client, the reload frames delivered
    cattach,    \* history: per client, the version when reload_ws ran
    opc,        \* orchestrator thread of dev: "build", "wait", "rebuild",
                \* "reload", "stop_debouncer", "stop_watcher" or "done"
    ocur,       \* orchestrator: the change it rebuilds for, or Unset
    mShutdown,  \* dev's shutdown channel: "none", "requested", "taken", "joined"
    wreleased,  \* the watcher worker has dropped its ProjectWatcher
    oreloads,   \* history: reload signals sent for rebuilds of changes
    olog,       \* history: the results of the rebuilds of changes, in order
    css_mode,   \* rebuild: its argument css_mode
    rchange,    \* rebuild: its argument change, or Unset
    rfail,      \* rebuild: the build steps that fail when they are run
    rsteps,     \* rebuild: the build steps run so far, in order
    rpc,        \* rebuild: "idle", "tailwind", "match" or "done"
    rres        \* rebuild: the Result returned, "Ok" or "Err", or Unset

cvars == <<cpath, cres>>

bvars == <<css_mode, rchange, rfail, rsteps, rpc, rres>>

pvars == <<opc, ocur, mShutdown, wreleased, oreloads, olog>>

rvars == <<version, rclosed, sShutdown, cst, cseen, cclosed, cframes, cattach>>

whist == <<nOps, unseen, wbefore, wsent, wdropped, wskipped, wfailed>>

wvars == <<fs, watched, notify_rx, wpc, wcur, wnext, wsending, wShutdown, whist>>

dhist == <<nFed, firstRecv, lastRecv, nRecv, nEmit, owed>>

dvars == <<now, out_ch, dpc, dWait, changes, expired, dsending, dShutdown, dhist>>

vars == <<cvars, bvars, change_ch, dvars, wvars, rvars, pvars>>

----------------------------------------------------------------------------
(* ChangeType (watch/mod.rs) and Option<ChangeType>.                        *)

\* A value is the sequence of its variant's name and, for Static, the
\* components of the path it carries.
Html == <<"Html">>
Css == <<"Css">>
Rust == <<"Rust">>
Static(full_path) == <<"Static">> \o full_path
None == <<"None">>
Unset == <<"Unset">>

\* The variant of a value, and the path a Static carries.
Tag(change) == change[1]
StaticPath(change) == Tail(change)

----------------------------------------------------------------------------
(* Paths.                                                                  *)

\* The project directory (ProjectWatcher.project) and a directory outside it.
Project == <<"proj">>
Elsewhere == <<"else">>

\* Path::starts_with: base is a component-wise prefix of path.
StartsWith(path, base) ==
    /\ Len(base) <= Len(path)
    /\ SubSeq(path, 1, Len(base)) = base

\* Path::strip_prefix: Ok(rest) when path starts with base, else Err.
StripPrefix(path, base) ==
    IF StartsWith(path, base)
    THEN [ok |-> TRUE, rest |-> SubSeq(path, Len(base) + 1, Len(path))]
    ELSE [ok |-> FALSE, rest |-> <<>>]

\* A plausible slip: the static-asset test placed before the stylesheet test.
to_build_trigger_static_first(full_path) ==
    LET stripped == StripPrefix(full_path, Project)
        path == stripped.rest
    IN
    IF ~stripped.ok THEN None
    ELSE IF path = <<"index.html">> THEN Html
    ELSE IF StartsWith(path, <<"assets">>) THEN Static(full_path)
    ELSE IF \/ path = <<"assets", "main.sass">>
            \/ path = <<"assets", "main.scss">>
            \/ path = <<"assets", "main.css">>
            \/ StartsWith(path, <<"assets", "sass">>)
            \/ StartsWith(path, <<"assets", "scss">>)
            \/ StartsWith(path, <<"assets", "css">>)
         THEN Css
    ELSE Rust

\* ProjectWatcher::to_build_trigger.
to_build_trigger(full_path) ==
    LET stripped == StripPrefix(full_path, Project)
        path == stripped.rest
    IN
    IF ~stripped.ok THEN None
    ELSE IF path = <<"index.html">> THEN Html
    ELSE IF \/ path = <<"assets", "main.sass">>
            \/ path = <<"assets", "main.scss">>
            \/ path = <<"assets", "main.css">>
            \/ StartsWith(path, <<"assets", "sass">>)
            \/ StartsWith(path, <<"assets", "scss">>)
            \/ StartsWith(path, <<"assets", "css">>)
         THEN Css
    ELSE IF StartsWith(path, <<"assets">>) THEN Static(full_path)
    ELSE Rust

----------------------------------------------------------------------------
(* The channels and the clock.                                             *)

\* watch/mod.rs: the size of every message channel of the pipeline.
CHANNEL_SIZE == 16

\* One tick of the clock is one sweep interval of the debouncer, the
\* Duration::from_millis(500) of its wait_timeout.
SweepInterval == 1

\* The debounce window, Duration::from_secs(2) in main.rs, in ticks.
Debounce == 4

ChannelsInit == change_ch = <<>>

\* The CSS framework of the project (CssMode), by its Display form.
Sass == "sass"
Tailwind == "tailwind"

\* No call of rebuild is being followed.
RebuildIdle ==
    /\ css_mode = Sass
    /\ rchange = Unset
    /\ rfail = {}
    /\ rsteps = <<>>
    /\ rpc = "idle"
    /\ rres = Unset

\* dev before its thread is spawned: the watcher and the debouncer run, the
\* first build is still to be made.
DevInit ==
    /\ opc = "build"
    /\ ocur = Unset
    /\ mShutdown = "none"
    /\ wreleased = FALSE
    /\ oreloads = 0
    /\ olog = <<>>

----------------------------------------------------------------------------
(* The file system and the ignore filter of the watcher's specification.   *)

\* The project holds index.html, a directory a with a file f, a directory
\* target and a file x.tmp; b and b/f are free names.  Its .gitignore reads
\* "target/" and "*.tmp".
WatchRelPaths ==
    {<<>>, <<"index.html">>, <<"a">>, <<"a", "f">>, <<"b">>, <<"b", "f">>,
     <<"target">>, <<"x.tmp">>}

WatchPaths == {Project \o rel : rel \in WatchRelPaths}

Parent(path) == SubSeq(path, 1, Len(path) - 1)

\* The paths of `tree` at or below path.
Subtree(tree, path) == {p \in DOMAIN tree : StartsWith(p, path)}

\* Path::is_dir on the file system as it is now.
IsDir(path) == fs[path] = "dir"

\* Names matched by the rules that hold for directories only: the built-in
\* ".git/" and the project's "target/".
DirOnlyIgnored == {".git", "target"}

\* Names matched by the project's rule "*.tmp".
AnyIgnored == {"x.tmp"}

\* Gitignore::matched(path, is_dir).is_ignore(): the rules are matched
\* against the path itself, never against its parents.
IsIgnore(path, is_dir) ==
    /\ Len(path) > Len(Project)
    /\ LET name == path[Len(path)] IN
        \/ name \in AnyIgnored
        \/ name \in DirOnlyIgnored /\ is_dir

InitialFs ==
    [p \in WatchPaths |->
        IF p \in {Project, Project \o <<"a">>, Project \o <<"target">>} THEN "dir"
        ELSE IF p \in {Project \o <<"index.html">>, Project \o <<"a", "f">>,
                       Project \o <<"x.tmp">>} THEN "file"
        ELSE "none"]

\* The rule watch() adds to the matcher by itself: add_line(None, ".git/").
BuiltinIgnored == {".git"}

\* The filter of the walker, git_ignore(true) with the standard filters
\* off: the rules of the .gitignore file alone, hidden entries included.
WalkerIgnore(path, is_dir) ==
    /\ Len(path) > Len(Project)
    /\ LET name == path[Len(path)] IN
        \/ name \in AnyIgnored
        \/ name \in DirOnlyIgnored \ BuiltinIgnored /\ is_dir

\* The seed scan of watch(): the walker yields every entry that its filter
\* does not exclude and that is in no excluded directory, and each one is
\* registered.
SeedWatchSet(tree) ==
    {p \in DOMAIN tree :
        /\ tree[p] # "none"
        /\ \A n \in (Len(Project) + 1)..Len(p) :
            LET q == SubSeq(p, 1, n) IN
            q \in DOMAIN tree => ~WalkerIgnore(q, tree[q] = "dir")}

----------------------------------------------------------------------------
(* Raw events of notify.                                                   *)

\* kind: the EventKind, with the ModifyKind and RenameMode the handler
\* tells apart; paths: Event.paths; dirs: per path, whether it was a
\* directory when the event was raised (CreateKind / RemoveKind::Folder).
Event(kind, paths, dirs) == [kind |-> kind, paths |-> paths, dirs |-> dirs]

NoEvent == Event("NoEvent", <<>>, <<>>)

\* A slip: Err(e) is not told apart and goes through the match.
DiscardedKindsWithoutError ==
    {"Access", "ModifyMetadata", "RenameFrom", "RenameTo", "RenameOther", "Other"}

\* A slip: the halves of a rename fall through to the forwarding loop.
DiscardedKindsWithoutHalves ==
    {"Error", "Access", "ModifyMetadata", "RenameOther", "Other"}

\* The kinds handle_event returns on without any effect, and Err(e).
DiscardedKinds ==
    {"Error", "Access", "ModifyMetadata", "RenameFrom", "RenameTo",
     "RenameOther", "Other"}

Range(seq) == {seq[i] : i \in 1..Len(seq)}

----------------------------------------------------------------------------
(* The watcher (watch/watcher.rs).                                         *)

WatcherInit ==
    /\ fs = InitialFs
    /\ watched = SeedWatchSet(InitialFs)
    /\ notify_rx = <<>>
    /\ wpc = "select"
    /\ wcur = NoEvent
    /\ wnext = 1
    /\ wsending = Unset
    /\ wShutdown = "none"
    /\ nOps = 0
    /\ unseen = FALSE
    /\ wbefore = {}
    /\ wsent = <<>>
    /\ wdropped = {}
    /\ wskipped = {}
    /\ wfailed = {}

\* watcher.watch(path, NonRecursive) fails on a path that does not exist.
WatchFails(path) == fs[path] = "none"

\* A slip: nothing is registered.
AddNothing(set, paths) == set

\* A slip: the first failed registration ends the loop of add_paths, as a
\* `?` on watcher.watch would.
AddPathsUntilFailure(set, paths) ==
    LET failing == {i \in 1..Len(paths) :
                        ~IsIgnore(paths[i], IsDir(paths[i])) /\ WatchFails(paths[i])}
    IN
    set \cup {paths[i] : i \in {j \in 1..Len(paths) :
                                    /\ ~IsIgnore(paths[j], IsDir(paths[j]))
                                    /\ \A f \in failing : j < f}}

\* add_paths: register every path that is not ignored; a failure is logged
\* and the next path is tried.
AddPaths(set, paths) ==
    set \cup {p \in Range(paths) : ~IsIgnore(p, IsDir(p)) /\ ~WatchFails(p)}

\* A slip: the unregistration is left out.
KeepPaths(set, paths) == set

\* A slip: the loop of remove_paths ends after its first path.
RemoveFirstPath(set, paths) == set \ {paths[1]}

\* remove_paths: unregister every path; a failure is logged and the next
\* path is tried.
RemovePaths(set, paths) == set \ Range(paths)

\* The watch set after the match of handle_event on the event's kind.
Mutated(set, ev) ==
    IF ev.kind = "Create" THEN AddPaths(set, ev.paths)
    ELSE IF ev.kind = "RenameBoth" THEN
        IF Len(ev.paths) = 2
        THEN AddPaths(RemovePaths(set, <<ev.paths[1]>>), <<ev.paths[2]>>)
        ELSE set
    ELSE IF ev.kind = "Remove" THEN RemovePaths(set, ev.paths)
    ELSE set

\* The paths handed to add_paths by the match.
AddArgs(ev) ==
    IF ev.kind = "Create" THEN Range(ev.paths)
    ELSE IF ev.kind = "RenameBoth" /\ Len(ev.paths) = 2 THEN {ev.paths[2]}
    ELSE {}

\* A slip: a path that no longer exists is filtered out as well.
PassesFilterIfPresent(path) == ~IsIgnore(path, IsDir(path)) /\ fs[path] # "none"

\* The filter of the forwarding loop: !gitignore.matched(path, path.is_dir()).
PassesFilter(path) == ~IsIgnore(path, IsDir(path))

\* Selector ... recv(&watcher.notify_rx): handle_event up to its forwarding
\* loop.  A discarded kind returns at once.
WatcherHandle ==
    /\ wpc = "select"
    /\ notify_rx # <<>>
    /\ LET ev == Head(notify_rx) IN
        /\ notify_rx' = Tail(notify_rx)
        /\ wcur' = ev
        /\ wbefore' = watched
        /\ watched' = Mutated(watched, ev)
        /\ wskipped' = {p \in AddArgs(ev) : IsIgnore(p, IsDir(p))}
        /\ wfailed' = {p \in AddArgs(ev) : ~IsIgnore(p, IsDir(p)) /\ WatchFails(p)}
        /\ wpc' = IF ev.kind \in DiscardedKinds THEN "select" ELSE "forward"
    /\ wnext' = 1
    /\ wsent' = <<>>
    /\ wdropped' = {}
    /\ UNCHANGED <<cvars, bvars, rvars, pvars, change_ch, dvars, fs, wsending, wShutdown, nOps, unseen>>

\* The forwarding loop takes the next path: filtered out, or classified.
WatcherForward ==
    /\ wpc = "forward"
    /\ wnext <= Len(wcur.paths)
    /\ LET path == wcur.paths[wnext]
           change == to_build_trigger(path)
       IN
        IF PassesFilter(path) /\ change # None
        THEN /\ wsending' = change
             /\ wpc' = "send"
             /\ UNCHANGED wdropped
        ELSE /\ wdropped' = wdropped \cup {wnext}
             /\ UNCHANGED <<wsending, wpc>>
    /\ wnext' = wnext + 1
    /\ UNCHANGED <<cvars, bvars, rvars, pvars, change_ch, dvars, fs, watched, notify_rx, wcur, wShutdown,
                   nOps, unseen, wbefore, wsent, wskipped, wfailed>>

\* A slip: try_send, which gives the change up when the channel is full.
WatcherTrySend ==
    /\ wpc = "send"
    /\ wShutdown # "dropped"
    /\ change_ch' = IF Len(change_ch) < CHANNEL_SIZE
                     THEN Append(change_ch, wsending) ELSE change_ch
    /\ wsent' = Append(wsent, wsending)
    /\ wsending' = Unset
    /\ wpc' = "forward"
    /\ UNCHANGED <<cvars, bvars, rvars, pvars, dvars, fs, watched, notify_rx, wcur, wnext, wShutdown,
                   nOps, unseen, wbefore, wdropped, wskipped, wfailed>>

\* self.change_tx.send(change): blocks while the change channel is full.
WatcherSend ==
    /\ wpc = "send"
    /\ wShutdown # "dropped"
    /\ Len(change_ch) < CHANNEL_SIZE
    /\ change_ch' = Append(change_ch, wsending)
    /\ wsent' = Append(wsent, wsending)
    /\ wsending' = Unset
    /\ wpc' = "forward"
    /\ UNCHANGED <<cvars, bvars, rvars, pvars, dvars, fs, watched, notify_rx, wcur, wnext, wShutdown,
                   nOps, unseen, wbefore, wdropped, wskipped, wfailed>>

\* handle_event returns; the loop selects again.
WatcherHandled ==
    /\ wpc = "forward"
    /\ wnext > Len(wcur.paths)
    /\ wpc' = "select"
    /\ UNCHANGED <<cvars, bvars, rvars, pvars, change_ch, dvars, fs, watched, notify_rx, wcur, wnext,
                   wsending, wShutdown, whist>>

\* self.change_tx.send(change) with the Handle dropped, and its receiver
\* with it: the send fails at once and the result is dropped by ok().
WatcherSendFailed ==
    /\ wpc = "send"
    /\ wShutdown = "dropped"
    /\ wsending' = Unset
    /\ wpc' = "forward"
    /\ UNCHANGED <<cvars, bvars, rvars, pvars, change_ch, dvars, fs, watched, notify_rx, wcur, wnext,
                   wShutdown, whist>>

\* A slip: a worker that gives up the event it is handling when the signal
\* arrives.
WatcherShutdownAnywhere ==
    /\ wpc # "done"
    /\ wShutdown \in {"requested", "dropped"}
    /\ wShutdown' = IF wShutdown = "requested" THEN "taken" ELSE wShutdown
    /\ wpc' = "done"
    /\ wreleased' = TRUE
    /\ UNCHANGED <<cvars, bvars, rvars, change_ch, dvars, fs, watched, notify_rx, wcur, wnext,
                   wsending, whist, opc, ocur, mShutdown, oreloads, olog>>

\* Selector ... recv(&watcher.shutdown, |_| None): the signal is received, or
\* the sender is dropped; the loop ends, and the thread drops the
\* ProjectWatcher with its notify watcher.
WatcherShutdown ==
    /\ wpc = "select"
    /\ wShutdown \in {"requested", "dropped"}
    /\ wShutdown' = IF wShutdown = "requested" THEN "taken" ELSE wShutdown
    /\ wpc' = "done"
    /\ wreleased' = TRUE
    /\ UNCHANGED <<cvars, bvars, rvars, change_ch, dvars, fs, watched, notify_rx, wcur, wnext,
                   wsending, whist, opc, ocur, mShutdown, oreloads, olog>>

\* watcher::Handle::shutdown: self.thread.join() returns when the worker
\* thread has ended.
WatcherJoined ==
    /\ wShutdown = "taken"
    /\ wpc = "done"
    /\ wShutdown' = "returned"
    /\ UNCHANGED <<cvars, bvars, rvars, pvars, change_ch, dvars, fs, watched, notify_rx, wpc, wcur,
                   wnext, wsending, whist>>

\* watcher::Handle::shutdown: self.shutdown.send(()), a rendezvous.
RequestWatcherShutdown ==
    /\ wShutdown = "none"
    /\ wShutdown' = "requested"
    /\ UNCHANGED <<cvars, bvars, rvars, pvars, change_ch, dvars, fs, watched, notify_rx, wpc, wcur, wnext,
                   wsending, whist>>

----------------------------------------------------------------------------
(* The file system operations of the watcher's specification and the raw   *)
(* events notify raises for them: an operation on a path is reported       *)
(* through the watch of its parent directory, and a removal also through   *)
(* the watch of the removed path itself (tests::delete_file receives two   *)
(* changes for one removed directory); a rename inside the watched tree    *)
(* is reported as its two halves and then as the paired event.             *)

\* Most file system operations in one behaviour.
MaxFsOps == 2

\* The notify callback's notify_tx.send(ev) of every event of one
\* operation on the directories dirs; it blocks while the channel is full.
Raise(events, dirs) ==
    /\ Len(notify_rx) + Len(events) <= CHANNEL_SIZE
    /\ notify_rx' = notify_rx \o events
    /\ unseen' = (unseen \/ ~(dirs \subseteq watched))

IfWatched(path, events) == IF path \in watched /\ ~wreleased THEN events ELSE <<>>

FsCreate ==
    /\ nOps < MaxFsOps
    /\ \E p \in WatchPaths \ {Project}, k \in {"file", "dir"} :
        /\ fs[p] = "none"
        /\ fs[Parent(p)] = "dir"
        /\ fs' = [fs EXCEPT ![p] = k]
        /\ Raise(IfWatched(Parent(p), <<Event("Create", <<p>>, <<k = "dir">>)>>),
                 {Parent(p)})
    /\ nOps' = nOps + 1
    /\ UNCHANGED <<cvars, bvars, rvars, pvars, change_ch, dvars, watched, wpc, wcur, wnext, wsending,
                   wShutdown, wbefore, wsent, wdropped, wskipped, wfailed>>

FsModify ==
    /\ nOps < MaxFsOps
    /\ \E p \in WatchPaths :
        /\ fs[p] = "file"
        /\ p \in watched \/ Parent(p) \in watched
        /\ ~wreleased
        /\ Raise(<<Event("Modify", <<p>>, <<FALSE>>)>>, {})
    /\ nOps' = nOps + 1
    /\ UNCHANGED <<cvars, bvars, rvars, pvars, change_ch, dvars, fs, watched, wpc, wcur, wnext, wsending,
                   wShutdown, wbefore, wsent, wdropped, wskipped, wfailed>>

FsRemove ==
    /\ nOps < MaxFsOps
    /\ \E p \in WatchPaths \ {Project} :
        /\ fs[p] # "none"
        /\ \A q \in Subtree(fs, p) : q = p \/ fs[q] = "none"
        /\ fs' = [fs EXCEPT ![p] = "none"]
        /\ LET ev == Event("Remove", <<p>>, <<fs[p] = "dir">>) IN
            Raise(IfWatched(Parent(p), <<ev>>) \o IfWatched(p, <<ev>>), {Parent(p)})
    /\ nOps' = nOps + 1
    /\ UNCHANGED <<cvars, bvars, rvars, pvars, change_ch, dvars, watched, wpc, wcur, wnext, wsending,
                   wShutdown, wbefore, wsent, wdropped, wskipped, wfailed>>

\* Where path ends up when the directory or file `from` is renamed to `to`.
Moved(path, from, to) == to \o SubSeq(path, Len(from) + 1, Len(path))

FsRename ==
    /\ nOps < MaxFsOps
    /\ \E p \in WatchPaths \ {Project}, q \in WatchPaths \ {Project} :
        /\ fs[p] # "none"
        /\ fs[q] = "none"
        /\ fs[Parent(q)] = "dir"
        /\ ~StartsWith(q, p)
        /\ \A d \in Subtree(fs, p) : fs[d] # "none" => Moved(d, p, q) \in WatchPaths
        /\ fs' = [x \in DOMAIN fs |->
                    IF StartsWith(x, q) /\ Moved(x, q, p) \in WatchPaths
                    THEN fs[Moved(x, q, p)]
                    ELSE IF StartsWith(x, p) THEN "none"
                    ELSE fs[x]]
        /\ LET dir == fs[p] = "dir" IN
            Raise(IfWatched(Parent(p), <<Event("RenameFrom", <<p>>, <<dir>>)>>)
                  \o IfWatched(Parent(q), <<Event("RenameTo", <<q>>, <<dir>>)>>)
                  \o IF Parent(p) \in watched /\ Parent(q) \in watched
                     THEN <<Event("RenameBoth", <<p, q>>, <<dir, dir>>)>>
                     ELSE <<>>,
                  {Parent(p), Parent(q)})
    /\ nOps' = nOps + 1
    /\ UNCHANGED <<cvars, bvars, rvars, pvars, change_ch, dvars, watched, wpc, wcur, wnext, wsending,
                   wShutdown, wbefore, wsent, wdropped, wskipped, wfailed>>

\* Events without a change of the tree: a file is read or its metadata
\* changes, notify reports a kind it cannot tell, or an error.
FsNoise ==
    /\ nOps < MaxFsOps
    /\ ~wreleased
    /\ \E p \in watched, kind \in DiscardedKinds \ {"Error", "RenameFrom", "RenameTo"} :
        /\ fs[p] # "none"
        /\ Raise(<<Event(kind, <<p>>, <<fs[p] = "dir">>)>>, {})
    /\ nOps' = nOps + 1
    /\ UNCHANGED <<cvars, bvars, rvars, pvars, change_ch, dvars, fs, watched, wpc, wcur, wnext, wsending,
                   wShutdown, wbefore, wsent, wdropped, wskipped, wfailed>>

NotifyError ==
    /\ nOps < MaxFsOps
    /\ ~wreleased
    /\ Raise(<<Event("Error", <<>>, <<>>)>>, {})
    /\ nOps' = nOps + 1
    /\ UNCHANGED <<cvars, bvars, rvars, pvars, change_ch, dvars, fs, watched, wpc, wcur, wnext, wsending,
                   wShutdown, wbefore, wsent, wdropped, wskipped, wfailed>>

\* The debouncer's side of the change channel, when it is not modelled.
DrainChange ==
    /\ change_ch # <<>>
    /\ change_ch' = Tail(change_ch)
    /\ UNCHANGED <<cvars, bvars, rvars, pvars, dvars, wvars>>

----------------------------------------------------------------------------
(* The reload connection (server/mod.rs): the forwarding task of run turns *)
(* every rebuild signal into an advance of a tokio watch channel, and      *)
(* every web socket client waits on its own receiver of that channel.      *)

\* Most clients and most advances of the channel.
MaxClients == 1
MaxAdvances == 2

Clients == 1..MaxClients

\* watch::channel(()): the value's version and the version the receiver
\* kept in AppState has seen; that receiver is never updated.
InitialVersion == 0

ReloadInit ==
    /\ version = InitialVersion
    /\ rclosed = FALSE
    /\ sShutdown = FALSE
    /\ cst = [c \in Clients |-> "idle"]
    /\ cseen = [c \in Clients |-> InitialVersion]
    /\ cclosed = [c \in Clients |-> FALSE]
    /\ cframes = [c \in Clients |-> 0]
    /\ cattach = [c \in Clients |-> InitialVersion]

\* A slip: the latest value is not marked seen.
KeepSeen(seen, ver) == seen

\* Receiver::borrow_and_update: the latest value is marked seen.
BorrowAndUpdate(seen, ver) == ver

\* Receiver::changed is ready with Ok: there is a value not yet seen.
HasChanged(c) == cseen[c] # version

\* A slip: changed() steps to the next version only.
MarkNextSeen(seen, ver) == seen + 1

\* Receiver::changed returning Ok marks the newest value seen.
MarkSeen(seen, ver) == ver

\* run's task: rebuild.recv_async() returned a signal and tx.send(()) put a
\* new value in the channel.
ReloadNotify ==
    /\ ~rclosed
    /\ version < MaxAdvances
    /\ version' = version + 1
    /\ UNCHANGED <<cvars, bvars, change_ch, dvars, wvars, pvars, cclosed, rclosed, sShutdown, cst, cseen, cframes, cattach>>

\* run's task: rebuild.recv_async() failed, the task ends and drops tx.
ReloadClose ==
    /\ ~rclosed
    /\ rclosed' = TRUE
    /\ UNCHANGED <<cvars, bvars, change_ch, dvars, wvars, pvars, cclosed, version, sShutdown, cst, cseen, cframes, cattach>>

\* run_server: the shutdown signal ends the server.
ServerShutdown ==
    /\ ~sShutdown
    /\ sShutdown' = TRUE
    /\ UNCHANGED <<cvars, bvars, change_ch, dvars, wvars, pvars, cclosed, version, rclosed, cst, cseen, cframes, cattach>>

\* reload_ws: the receiver is cloned from AppState, the latest value is
\* marked seen, and the upgrade is answered.
ReloadWs(c) ==
    /\ ~sShutdown
    /\ cst[c] = "idle"
    /\ cseen' = [cseen EXCEPT ![c] = BorrowAndUpdate(InitialVersion, version)]
    /\ cattach' = [cattach EXCEPT ![c] = version]
    /\ cst' = [cst EXCEPT ![c] = "upgrade"]
    /\ UNCHANGED <<cvars, bvars, change_ch, dvars, wvars, pvars, cclosed, version, rclosed, sShutdown, cframes>>

\* on_upgrade: the connection is upgraded and ws_notify starts its loop.
WsUpgraded(c) ==
    /\ cst[c] = "upgrade"
    /\ cst' = [cst EXCEPT ![c] = "select"]
    /\ UNCHANGED <<cvars, bvars, change_ch, dvars, wvars, pvars, cclosed, version, rclosed, sShutdown,
                   cseen, cframes, cattach>>

\* select!: shutdown.handle() is ready, ws_notify returns.
WsShutdown(c) ==
    /\ cst[c] = "select"
    /\ sShutdown
    /\ cst' = [cst EXCEPT ![c] = "done"]
    /\ UNCHANGED <<cvars, bvars, change_ch, dvars, wvars, pvars, cclosed, version, rclosed, sShutdown,
                   cseen, cframes, cattach>>

\* select!: reload.changed() is Ok, the value is marked seen and the frame
\* "reload" is about to be sent.
WsChanged(c) ==
    /\ cst[c] = "select"
    /\ HasChanged(c)
    /\ cseen' = [cseen EXCEPT ![c] = MarkSeen(cseen[c], version)]
    /\ cst' = [cst EXCEPT ![c] = "send"]
    /\ UNCHANGED <<cvars, bvars, change_ch, dvars, wvars, pvars, cclosed, version, rclosed, sShutdown, cframes, cattach>>

\* A slip: the error of changed() is not looked at and the loop goes on.
WsReloadClosedIgnored(c) ==
    /\ cst[c] = "select"
    /\ rclosed
    /\ UNCHANGED vars

\* select!: reload.changed() is Err, the channel is closed: ws_notify
\* returns.  With a value not yet seen the result depends on the library's
\* version, and both results are kept.
WsReloadClosed(c) ==
    /\ cst[c] = "select"
    /\ rclosed
    /\ cst' = [cst EXCEPT ![c] = "done"]
    /\ UNCHANGED <<cvars, bvars, change_ch, dvars, wvars, pvars, cclosed, version, rclosed, sShutdown,
                   cseen, cframes, cattach>>

\* timeout(1 s, socket.send(msg)) completes with Ok: the frame is delivered.
WsSendOk(c) ==
    /\ cst[c] = "send"
    /\ cframes' = [cframes EXCEPT ![c] = @ + 1]
    /\ cst' = [cst EXCEPT ![c] = "select"]
    /\ UNCHANGED <<cvars, bvars, change_ch, dvars, wvars, pvars, cclosed, version, rclosed, sShutdown,
                   cseen, cattach>>

\* The send times out (continue) or fails (the result is not looked at):
\* no frame is delivered and the loop goes on.
WsSendFail(c) ==
    /\ cst[c] = "send"
    /\ cst' = [cst EXCEPT ![c] = "select"]
    /\ UNCHANGED <<cvars, bvars, change_ch, dvars, wvars, pvars, cclosed, version, rclosed, sShutdown,
                   cseen, cframes, cattach>>

\* A slip: the end of the stream is taken for a message and the loop goes on.
WsClosedIgnored(c) ==
    /\ cst[c] = "select"
    /\ cclosed[c]
    /\ UNCHANGED vars

\* select!: socket.recv() is None, the client closed the connection:
\* ws_notify returns.  (When it is a message, the message is dropped and
\* the loop goes on with nothing changed.)
WsClosed(c) ==
    /\ cst[c] = "select"
    /\ cclosed[c]
    /\ cst' = [cst EXCEPT ![c] = "done"]
    /\ UNCHANGED <<cvars, bvars, change_ch, dvars, wvars, pvars, cclosed, version, rclosed, sShutdown,
                   cseen, cframes, cattach>>

\* The client closes its end of the connection.
ClientClose(c) ==
    /\ cst[c] \in {"upgrade", "select", "send"}
    /\ ~cclosed[c]
    /\ cclosed' = [cclosed EXCEPT ![c] = TRUE]
    /\ UNCHANGED <<cvars, bvars, change_ch, dvars, wvars, pvars, version, rclosed, sShutdown,
                   cst, cseen, cframes, cattach>>

----------------------------------------------------------------------------
(* The debouncer (watch/debouncer.rs).                                     *)

\* The changes fed to the debouncer.
DebounceKeys == {Html, Css, Rust}

\* Two files of the assets tree and its main stylesheet, and the changes
\* the watcher forwards for them.
AssetFiles ==
    {Project \o <<"assets", "logo.png">>, Project \o <<"assets", "font.woff">>,
     Project \o <<"assets", "main.css">>}

AssetKeys == {to_build_trigger(p) : p \in AssetFiles}

\* Every key the map of the debouncer holds in some behaviour.
PendingKeys == DebounceKeys \cup AssetKeys

DebouncerInit ==
    /\ now = 0
    /\ out_ch = <<>>
    /\ dpc = "wait"
    /\ dWait = 0
    /\ changes = <<>>
    /\ expired = {}
    /\ dsending = Unset
    /\ dShutdown = "none"
    /\ nFed = 0
    /\ firstRecv = [c \in PendingKeys |-> 0]
    /\ lastRecv = [c \in PendingKeys |-> 0]
    /\ nRecv = [c \in PendingKeys |-> 0]
    /\ nEmit = [c \in PendingKeys |-> 0]
    /\ owed = [c \in PendingKeys |-> 0]

\* A slip: insert, which stamps the key anew when it is pending.
InsertAlways(map, change, t) ==
    [c \in DOMAIN map \cup {change} |-> IF c = change THEN t ELSE map[c]]

\* A slip: the map keyed by the variant alone, without the path of Static.
OrInsertByTag(map, change, t) ==
    IF \E c \in DOMAIN map : Tag(c) = Tag(change)
    THEN map
    ELSE [c \in DOMAIN map \cup {change} |-> IF c = change THEN t ELSE map[c]]

\* debouncer.changes.entry(change).or_insert_with(Instant::now)
OrInsert(map, change, t) ==
    IF change \in DOMAIN map
    THEN map
    ELSE [c \in DOMAIN map \cup {change} |-> IF c = change THEN t ELSE map[c]]

\* A slip: the sweep interval taken for the debounce window.
IsExpiredAfterSweep(t, time) == t - time >= SweepInterval

\* A slip: an entry expires only after the window and a sweep interval.
IsExpiredLate(t, time) == t - time > Debounce + SweepInterval

\* now.duration_since(*time) >= debouncer.debounce
IsExpired(t, time) == t - time >= Debounce

\* A slip: the sweep takes every pending change for expired.
ExpiredAll(map, t) == DOMAIN map

\* The HashSet of the expired changes collected by a sweep.
ExpiredSet(map, t) == {c \in DOMAIN map : IsExpired(t, map[c])}

\* A slip: the flushed entry is left in the map.
RemoveNothing(map, change) == map

\* debouncer.changes.remove(&change)
RemoveKey(map, change) == [c \in DOMAIN map \ {change} |-> map[c]]

\* The watcher's worker has ended and dropped change_tx, and the change
\* channel is drained: recv on it returns an error.
ChangeClosed == wpc = "done" /\ change_ch = <<>>

\* The worker has a step to take that does not wait for time to pass.
DebouncerReady ==
    \/ /\ dpc = "wait"
       /\ \/ change_ch # <<>>
          \/ dShutdown \in {"requested", "dropped"}
          \/ ChangeClosed
          \/ now - dWait >= SweepInterval
    \/ dpc = "flush"
    \/ dpc = "send" /\ (Len(out_ch) < CHANNEL_SIZE \/ dShutdown = "dropped")

\* A slip: a sweep deadline that a received change does not put off.
DebouncerRecvKeepsDeadline ==
    /\ dpc = "wait"
    /\ change_ch # <<>>
    /\ LET change == Head(change_ch) IN
        /\ change_ch' = Tail(change_ch)
        /\ changes' = OrInsert(changes, change, now)
        /\ firstRecv' = IF nRecv[change] = 0
                        THEN [firstRecv EXCEPT ![change] = now]
                        ELSE firstRecv
        /\ lastRecv' = [lastRecv EXCEPT ![change] = now]
        /\ nRecv' = [nRecv EXCEPT ![change] = @ + 1]
        /\ owed' = IF nEmit[change] = owed[change]
                   THEN [owed EXCEPT ![change] = @ + 1]
                   ELSE owed
    /\ UNCHANGED <<cvars, bvars, rvars, pvars, wvars, now, out_ch, dpc, dWait, expired, dsending, dShutdown, nFed, nEmit>>

\* Selector ... Ok(Some(change)): store the change unless it is pending.
DebouncerRecv ==
    /\ dpc = "wait"
    /\ change_ch # <<>>
    /\ LET change == Head(change_ch) IN
        /\ change_ch' = Tail(change_ch)
        /\ changes' = OrInsert(changes, change, now)
        /\ dWait' = now
        /\ firstRecv' = IF nRecv[change] = 0
                        THEN [firstRecv EXCEPT ![change] = now]
                        ELSE firstRecv
        /\ lastRecv' = [lastRecv EXCEPT ![change] = now]
        /\ nRecv' = [nRecv EXCEPT ![change] = @ + 1]
        /\ owed' = IF nEmit[change] = owed[change]
                   THEN [owed EXCEPT ![change] = @ + 1]
                   ELSE owed
    /\ UNCHANGED <<cvars, bvars, rvars, pvars, wvars, now, out_ch, dpc, expired, dsending, dShutdown, nFed, nEmit>>

\* A slip: a worker that sends a pending change on its way out.
DebouncerShutdownFlushing ==
    /\ dpc = "wait"
    /\ dShutdown \in {"requested", "dropped"} \/ ChangeClosed
    /\ dShutdown' = IF dShutdown = "requested" THEN "taken" ELSE dShutdown
    /\ dpc' = "done"
    /\ wShutdown' = IF dShutdown = "dropped" /\ wShutdown = "none"
                    THEN "dropped" ELSE wShutdown
    /\ out_ch' = IF DOMAIN changes # {} /\ Len(out_ch) < CHANNEL_SIZE
                  THEN Append(out_ch, CHOOSE c \in DOMAIN changes : TRUE)
                  ELSE out_ch
    /\ UNCHANGED <<cvars, bvars, rvars, pvars, change_ch, now, dWait, changes, expired,
                   dsending, dhist, fs, watched, notify_rx, wpc, wcur, wnext, wsending,
                   whist>>

\* A slip: only the signal itself ends the loop; a dropped sender and a
\* closed change channel leave the worker waiting.
DebouncerShutdownOnSignal ==
    /\ dpc = "wait"
    /\ dShutdown = "requested"
    /\ dShutdown' = "taken"
    /\ dpc' = "done"
    /\ UNCHANGED <<cvars, bvars, rvars, pvars, change_ch, now, out_ch, dWait, changes, expired,
                   dsending, dhist, wvars>>

\* Selector ... Ok(None): the shutdown signal is received, its sender is
\* dropped, or the change channel is closed; break.  The thread ends with
\* the watcher's Handle as its result, which is dropped with the thread
\* when the debouncer's Handle, and so its JoinHandle, has been dropped.
DebouncerShutdown ==
    /\ dpc = "wait"
    /\ dShutdown \in {"requested", "dropped"} \/ ChangeClosed
    /\ dShutdown' = IF dShutdown = "requested" THEN "taken" ELSE dShutdown
    /\ dpc' = "done"
    /\ wShutdown' = IF dShutdown = "dropped" /\ wShutdown = "none"
                    THEN "dropped" ELSE wShutdown
    /\ UNCHANGED <<cvars, bvars, rvars, pvars, change_ch, now, out_ch, dWait, changes, expired,
                   dsending, dhist, fs, watched, notify_rx, wpc, wcur, wnext, wsending,
                   whist>>

\* A slip: shutdown returns once the signal is queued, without the
\* rendezvous and without joining the thread.
DebouncerNotJoined ==
    /\ dShutdown = "requested"
    /\ dShutdown' = "returned"
    /\ UNCHANGED <<cvars, bvars, rvars, pvars, wvars, change_ch, now, out_ch, dpc, dWait, changes,
                   expired, dsending, dhist>>

\* debouncer::Handle::shutdown: self.thread.join() returns the watcher's
\* Handle when the worker thread has ended.
DebouncerJoined ==
    /\ dShutdown = "taken"
    /\ dpc = "done"
    /\ dShutdown' = "returned"
    /\ UNCHANGED <<cvars, bvars, rvars, pvars, wvars, change_ch, now, out_ch, dpc, dWait, changes,
                   expired, dsending, dhist>>

\* Selector ... Err(_): nothing was received for a sweep interval; collect
\* the expired changes.
DebouncerTimeout ==
    /\ dpc = "wait"
    /\ change_ch = <<>>
    /\ dShutdown # "requested"
    /\ now - dWait >= SweepInterval
    /\ expired' = ExpiredSet(changes, now)
    /\ dpc' = "flush"
    /\ UNCHANGED <<cvars, bvars, rvars, pvars, wvars, change_ch, now, out_ch, dWait, changes, dsending, dShutdown, dhist>>

\* for change in expired: remove it from the map, then send it.
DebouncerFlush ==
    /\ dpc = "flush"
    /\ \E change \in expired :
        /\ expired' = expired \ {change}
        /\ changes' = RemoveKey(changes, change)
        /\ dsending' = change
    /\ dpc' = "send"
    /\ UNCHANGED <<cvars, bvars, rvars, pvars, wvars, change_ch, now, out_ch, dWait, dShutdown, dhist>>

\* debouncer.tx.send(change) with the Handle dropped, and its receiver with
\* it: the send fails at once and the result is dropped by ok().
DebouncerSendFailed ==
    /\ dpc = "send"
    /\ dShutdown = "dropped"
    /\ dsending' = Unset
    /\ dpc' = "flush"
    /\ UNCHANGED <<cvars, bvars, rvars, pvars, wvars, change_ch, now, out_ch, dWait, changes, expired,
                   dShutdown, dhist>>

\* A slip: the change taken out of the map is dropped without the send.
DebouncerSendSkipped ==
    /\ dpc = "send"
    /\ dShutdown # "dropped"
    /\ dsending' = Unset
    /\ dpc' = "flush"
    /\ UNCHANGED <<cvars, bvars, rvars, pvars, wvars, change_ch, now, out_ch, dWait, changes, expired,
                   dShutdown, dhist>>

\* debouncer.tx.send(change): blocks while the output channel is full.
DebouncerSend ==
    /\ dpc = "send"
    /\ dShutdown # "dropped"
    /\ Len(out_ch) < CHANNEL_SIZE
    /\ out_ch' = Append(out_ch, dsending)
    /\ nEmit' = [nEmit EXCEPT ![dsending] = @ + 1]
    /\ dsending' = Unset
    /\ dpc' = "flush"
    /\ UNCHANGED <<cvars, bvars, rvars, pvars, wvars, change_ch, now, dWait, changes, expired, dShutdown,
                   nFed, firstRecv, lastRecv, nRecv, owed>>

\* The sweep is over; the loop starts the next wait_timeout.
DebouncerSwept ==
    /\ dpc = "flush"
    /\ expired = {}
    /\ dpc' = "wait"
    /\ dWait' = now
    /\ UNCHANGED <<cvars, bvars, rvars, pvars, wvars, change_ch, now, out_ch, changes, expired, dsending, dShutdown, dhist>>

\* Most changes fed to the debouncer in one behaviour.
MaxChanges == 3

\* Last instant of the clock.
MaxTime == 8

\* The watcher's side of the change channel: change_tx.send(change).
FeedChange ==
    /\ nFed < MaxChanges
    /\ Len(change_ch) < CHANNEL_SIZE
    /\ \E change \in DebounceKeys : change_ch' = Append(change_ch, change)
    /\ nFed' = nFed + 1
    /\ UNCHANGED <<cvars, bvars, rvars, pvars, wvars, now, out_ch, dpc, dWait, changes, expired, dsending, dShutdown,
                   firstRecv, lastRecv, nRecv, nEmit, owed>>

\* The orchestrator's side of the output channel: it receives a change.
TakeOutput ==
    /\ out_ch # <<>>
    /\ out_ch' = Tail(out_ch)
    /\ UNCHANGED <<cvars, bvars, rvars, pvars, wvars, change_ch, now, dpc, dWait, changes, expired, dsending, dShutdown, dhist>>

\* Handle::shutdown: self.shutdown.send(()), a rendezvous with the worker.
RequestShutdown ==
    /\ dShutdown = "none"
    /\ dShutdown' = "requested"
    /\ UNCHANGED <<cvars, bvars, rvars, pvars, wvars, change_ch, now, out_ch, dpc, dWait, changes, expired, dsending, dhist>>

\* Time passes only while the worker waits: its steps take no time.  The
\* clock is read by the worker alone and stops with it.
Tick ==
    /\ now < MaxTime
    /\ dpc # "done"
    /\ ~DebouncerReady
    /\ now' = now + 1
    /\ UNCHANGED <<cvars, bvars, rvars, pvars, wvars, change_ch, out_ch, dpc, dWait, changes, expired, dsending, dShutdown, dhist>>

DebounceInit ==
    /\ cpath = Project
    /\ cres = Unset
    /\ RebuildIdle
    /\ ChannelsInit
    /\ DebouncerInit
    /\ WatcherInit
    /\ ReloadInit
    /\ DevInit

DebounceNext ==
    \/ FeedChange
    \/ DebouncerRecv
    \/ DebouncerShutdown
    \/ DebouncerTimeout
    \/ DebouncerFlush
    \/ DebouncerSend
    \/ DebouncerSwept
    \/ TakeOutput
    \/ RequestShutdown
    \/ Tick

SpecDebounce == DebounceInit /\ [][DebounceNext]_vars

\* The watcher's side of the change channel while files of the assets
\* tree are written: change_tx.send(change) of the change of the file.
FeedAsset ==
    /\ nFed < MaxChanges
    /\ Len(change_ch) < CHANNEL_SIZE
    /\ \E p \in AssetFiles : change_ch' = Append(change_ch, to_build_trigger(p))
    /\ nFed' = nFed + 1
    /\ UNCHANGED <<cvars, bvars, rvars, pvars, wvars, now, out_ch, dpc, dWait, changes, expired,
                   dsending, dShutdown, firstRecv, lastRecv, nRecv, nEmit, owed>>

DebounceAssetsNext ==
    \/ FeedAsset
    \/ DebouncerRecv
    \/ DebouncerShutdown
    \/ DebouncerTimeout
    \/ DebouncerFlush
    \/ DebouncerSend
    \/ DebouncerSwept
    \/ TakeOutput
    \/ RequestShutdown
    \/ Tick

SpecDebounceAssets == DebounceInit /\ [][DebounceAssetsNext]_vars

----------------------------------------------------------------------------
(* Claims about the debouncer.                                             *)

\* The change is pending in the map, or taken out of it and being sent.
Outstanding(c) == IF c \in DOMAIN changes \/ dsending = c THEN 1 ELSE 0

(* C2: for Html, Css and Rust, two or more changes of one category, all    *)
(* received within one debounce window of the first, collapse to one       *)
(* notification: one is emitted or still outstanding, never more.          *)
C2_BurstCollapses ==
    \A c \in {Html, Css, Rust} :
        (nRecv[c] >= 2 /\ lastRecv[c] - firstRecv[c] < Debounce) =>
            nEmit[c] + Outstanding(c) = 1

C2_Witness ==
    /\ nRecv[Css] >= 2
    /\ lastRecv[Css] - firstRecv[Css] < Debounce
    /\ lastRecv[Css] > firstRecv[Css]
    /\ nEmit[Css] = 1
    /\ Outstanding(Css) = 0

(* C3, as claimed: two changes of one category received more than one      *)
(* window apart, measured from the first, produce two emissions once       *)
(* nothing of that category is outstanding.                                *)
C3_TwoWindowsApartTwoEmissions ==
    \A c \in DebounceKeys :
        (/\ nRecv[c] = 2
         /\ lastRecv[c] - firstRecv[c] > Debounce
         /\ Outstanding(c) = 0) =>
            nEmit[c] = 2

(* C3, amended: a change produces an emission of its own exactly when it   *)
(* is received after every earlier emission of its category has gone out;  *)
(* a change received while its category is still pending is swallowed,     *)
(* however long after the first it comes.                                  *)
C3_EmissionPerFlushedChange ==
    \A c \in DebounceKeys : nEmit[c] + Outstanding(c) = owed[c]

C3_Witness ==
    /\ nRecv[Rust] = 2
    /\ owed[Rust] = 2
    /\ nEmit[Rust] = 2

(* C4: a pending change is emitted at most one debounce window plus one    *)
(* sweep interval after the last event of its burst, whatever else         *)
(* arrives, as long as the worker has not been shut down and the output    *)
(* channel has room.                                                       *)
C4_LatencyBounded ==
    \A c \in DOMAIN changes :
        (dShutdown = "none" /\ Len(out_ch) < CHANNEL_SIZE) =>
            now - lastRecv[c] <= Debounce + SweepInterval

(* C21: the debouncer never emits a change whose pending entry is younger  *)
(* than the window: an entry leaves the map only when the time since its   *)
(* stored instant is at least the window, the change handed to the send is *)
(* the entry taken out, the change put on the output channel is the one    *)
(* handed to the send, and an entry younger than the window stays in the   *)
(* map with its instant.                                                   *)
C21_NoEarlyEmission ==
    [][/\ \A c \in DOMAIN changes :
            IF now - changes[c] >= Debounce
            THEN c \in DOMAIN changes' => changes'[c] = changes[c]
            ELSE c \in DOMAIN changes' /\ changes'[c] = changes[c]
       /\ (dsending' # dsending /\ dsending' # Unset) =>
            /\ dsending' \in DOMAIN changes
            /\ dsending' \notin DOMAIN changes'
            /\ now - changes[dsending'] >= Debounce
       /\ Len(out_ch') > Len(out_ch) =>
            /\ dsending # Unset
            /\ out_ch' = Append(out_ch, dsending)]_vars

\* A sweep has taken the expired Html out of the map and left the younger
\* Css in it.
C21_Witness ==
    /\ dpc = "send"
    /\ dsending = Html
    /\ Css \in DOMAIN changes
    /\ now - changes[Css] < Debounce

(* C22: while a key is pending its stored instant never changes; a        *)
(* received change whose key is pending leaves the whole map as it is, a   *)
(* received change whose key is absent adds that one entry, stamped with   *)
(* the instant of the receive, and nothing else ever adds an entry.        *)
C22_FirstSeenKept ==
    [][/\ \A c \in DOMAIN changes \cap DOMAIN changes' : changes'[c] = changes[c]
       /\ Len(change_ch') < Len(change_ch) =>
            LET change == Head(change_ch) IN
                IF change \in DOMAIN changes
                THEN changes' = changes
                ELSE /\ DOMAIN changes' = DOMAIN changes \cup {change}
                     /\ changes'[change] = now
       /\ ~(DOMAIN changes' \subseteq DOMAIN changes) =>
            Len(change_ch') < Len(change_ch)]_vars

\* Css was received again after its entry was stored, and the entry still
\* carries the instant of the first.
C22_Witness ==
    /\ Css \in DOMAIN changes
    /\ nRecv[Css] >= 2
    /\ lastRecv[Css] > changes[Css]

(* C23: the map holds at most one entry per category, and per path for    *)
(* Static; an entry leaves the map exactly when it is flushed: an entry    *)
(* taken out is an expired one and is the change handed to the send, the   *)
(* change handed to the send goes onto the output channel before the       *)
(* sweep ends, and whatever goes onto the output channel was pending and   *)
(* has been taken out of the map by this sweep.                            *)
C23_RemovedIffFlushed ==
    /\ [](/\ \A c \in PendingKeys :
              /\ owed[c] - nEmit[c] \in {0, 1}
              /\ c \in DOMAIN changes => owed[c] - nEmit[c] = 1
          /\ DOMAIN changes \subseteq PendingKeys
          /\ expired \subseteq DOMAIN changes
          /\ dsending # Unset => (dsending \notin DOMAIN changes /\ dpc = "send")
          /\ dpc \in {"wait", "done"} => (expired = {} /\ dsending = Unset))
    /\ [][/\ \A c \in DOMAIN changes \ DOMAIN changes' :
               /\ c \in expired
               /\ dsending' = c
               /\ DOMAIN changes' = DOMAIN changes \ {c}
          /\ (dsending # Unset /\ dsending' # dsending) =>
               out_ch' = Append(out_ch, dsending)
          /\ Len(out_ch') > Len(out_ch) =>
               /\ out_ch' = Append(out_ch, dsending)
               /\ dsending \in PendingKeys
               /\ dsending \notin DOMAIN changes
               /\ dsending' = Unset]_vars

\* The two assets are pending; the sweep has taken the logo out of the map
\* and sends it, the font is still in the map.
C23_Witness ==
    /\ dpc = "send"
    /\ dsending = Static(Project \o <<"assets", "logo.png">>)
    /\ Static(Project \o <<"assets", "font.woff">>) \in DOMAIN changes
    /\ nRecv[Static(Project \o <<"assets", "logo.png">>)] >= 2

(* C24: Static changes are debounced per path: each asset path received    *)
(* has an entry or an emission of its own, stamped with the instant its    *)
(* own first change was received, whatever other asset is pending; the     *)
(* changes of one path received within one window collapse to one          *)
(* emission, and every Static change on the output channel carries the     *)
(* path of an asset that was received.                                     *)
C24_StaticPerPath ==
    /\ \A k \in AssetKeys :
        /\ nRecv[k] >= 1 => nEmit[k] + Outstanding(k) >= 1
        /\ (nRecv[k] >= 1 /\ lastRecv[k] - firstRecv[k] < Debounce) =>
            /\ nEmit[k] + Outstanding(k) = 1
            /\ (k \in DOMAIN changes => changes[k] = firstRecv[k])
    /\ \A i \in 1..Len(out_ch) :
        Tag(out_ch[i]) = "Static" =>
            /\ StaticPath(out_ch[i]) \in AssetFiles
            /\ nRecv[out_ch[i]] >= 1

\* Logo and font were changed within one window, the logo twice: one
\* emission for each path is on the output channel.
C24_Witness ==
    LET logo == Static(Project \o <<"assets", "logo.png">>)
        font == Static(Project \o <<"assets", "font.woff">>)
    IN
    /\ nRecv[logo] = 2
    /\ nRecv[font] = 1
    /\ lastRecv[logo] - firstRecv[font] < Debounce
    /\ lastRecv[font] - firstRecv[logo] < Debounce
    /\ out_ch \in {<<logo, font>>, <<font, logo>>}

\* The instant the latest change was received.
LastArrival ==
    LET times == {lastRecv[k] : k \in PendingKeys} IN
    CHOOSE t \in times : \A u \in times : u <= t

(* C25: while the debouncer is not shut down and the output channel has    *)
(* room, an entry after which no further change was received is never      *)
(* older than one window plus one sweep interval; and once that much time  *)
(* has passed since the latest change, nothing is pending any more and     *)
(* every entry that was stored has been emitted exactly once.              *)
C25_QuietEntryEmittedOnce ==
    (dShutdown = "none" /\ Len(out_ch) < CHANNEL_SIZE) =>
        /\ \A c \in DOMAIN changes :
            LastArrival <= changes[c] => now - changes[c] <= Debounce + SweepInterval
        /\ now - LastArrival > Debounce + SweepInterval =>
            /\ DOMAIN changes = {}
            /\ dsending = Unset
            /\ \A c \in PendingKeys : nEmit[c] = owed[c]

\* Css and Rust were received once each and nothing after them; one window
\* and one sweep interval later both have been emitted, and time went on.
C25_Witness ==
    /\ dShutdown = "none"
    /\ nRecv[Css] = 1
    /\ nRecv[Rust] = 1
    /\ lastRecv[Css] < lastRecv[Rust]
    /\ nEmit[Css] = 1
    /\ nEmit[Rust] = 1
    /\ DOMAIN changes = {}
    /\ now - LastArrival > Debounce + SweepInterval

----------------------------------------------------------------------------
(* Specification of the watcher alone: the file system changes, notify     *)
(* raises events, the worker handles them, and the change channel is       *)
(* drained.                                                                *)

WatchInit ==
    /\ cpath = Project
    /\ cres = Unset
    /\ RebuildIdle
    /\ ChannelsInit
    /\ DebouncerInit
    /\ WatcherInit
    /\ ReloadInit
    /\ DevInit

WatchNext ==
    \/ FsCreate
    \/ FsModify
    \/ FsRemove
    \/ FsRename
    \/ FsNoise
    \/ NotifyError
    \/ WatcherHandle
    \/ WatcherForward
    \/ WatcherSend
    \/ WatcherHandled
    \/ WatcherShutdown
    \/ RequestWatcherShutdown
    \/ DrainChange

SpecWatch == WatchInit /\ [][WatchNext]_vars

----------------------------------------------------------------------------
(* Claims about the watcher.                                               *)

\* The worker has handled wcur completely.
Completed(kind) == wpc \in {"select", "done"} /\ wcur.kind = kind

\* The name of the path is matched by some ignore rule, for directories
\* only or for every kind of entry.
NameIgnorable(path) ==
    /\ Len(path) > Len(Project)
    /\ path[Len(path)] \in AnyIgnored \cup DirOnlyIgnored

\* The name of the path is matched by a rule that holds for every kind.
AlwaysIgnored(path) ==
    /\ Len(path) > Len(Project)
    /\ path[Len(path)] \in AnyIgnored

\* The indices of the paths of wcur that the forward filter let through.
KeptIndices ==
    SelectSeq([i \in 1..Len(wcur.paths) |-> i], LAMBDA i : i \notin wdropped)

\* One change per path let through, in the order of the event's paths,
\* each path classified by itself; only ignorable paths were dropped, and
\* every path whose rule holds for all kinds was.
ForwardedPerKeptPath ==
    /\ wsent = [k \in 1..Len(KeptIndices) |-> to_build_trigger(wcur.paths[KeptIndices[k]])]
    /\ \A i \in 1..Len(wcur.paths) :
        /\ i \in wdropped => NameIgnorable(wcur.paths[i])
        /\ AlwaysIgnored(wcur.paths[i]) => i \in wdropped

(* C5, as claimed: a handled paired rename has always forwarded exactly    *)
(* two changes.                                                            *)
C5_RenameForwardsTwo ==
    (Completed("RenameBoth") /\ Len(wcur.paths) = 2) => Len(wsent) = 2

(* C5, amended: a handled paired rename has forwarded one change for each  *)
(* of its two paths that the ignore filter does not match, the old path    *)
(* first, each classified by itself: two changes, also of different        *)
(* categories, when neither path is ignored, and fewer otherwise.          *)
C5_RenameForwardsKeptPaths ==
    (Completed("RenameBoth") /\ Len(wcur.paths) = 2) =>
        /\ ForwardedPerKeptPath
        /\ Len(wsent) = 2 - Cardinality(wdropped)

C5_Witness ==
    /\ Completed("RenameBoth")
    /\ wcur.paths = <<Project \o <<"index.html">>, Project \o <<"b">>>>
    /\ wsent = <<Html, Rust>>

(* C6, as claimed: a handled removal has unregistered every listed path    *)
(* and forwarded exactly one change per listed path.                       *)
C6_RemoveForwardsOnePerPath ==
    Completed("Remove") =>
        /\ Range(wcur.paths) \cap watched = {}
        /\ Len(wsent) = Len(wcur.paths)

(* C6, amended: a handled removal has unregistered exactly the listed      *)
(* paths, no descendant of them, and forwarded one change per listed path  *)
(* that the ignore filter does not match.                                  *)
C6_RemoveForwardsKeptPaths ==
    Completed("Remove") =>
        /\ watched = wbefore \ Range(wcur.paths)
        /\ ForwardedPerKeptPath

C6_Witness ==
    /\ Completed("Remove")
    /\ wcur.paths = <<Project \o <<"a", "f">>>>
    /\ Project \o <<"a", "f">> \in wbefore
    /\ wsent = <<Rust>>

(* C7, as claimed: when the change of a created path that no ignore rule   *)
(* can match is sent, the path is in the watch set.                        *)
C7_CreatedPathWatchedWhenSent ==
    (wpc = "send" /\ wcur.kind = "Create" /\ ~NameIgnorable(wcur.paths[wnext - 1]))
        => wcur.paths[wnext - 1] \in watched

(* C7, amended: while the changes of an event are forwarded, its watch-set *)
(* mutations are all in place: every removed path is unregistered, and     *)
(* every path to add is registered unless add_paths found it ignored or    *)
(* its registration failed.                                                *)
C7_MutationsBeforeForwarding ==
    wpc \in {"forward", "send"} =>
        /\ \A p \in AddArgs(wcur) : p \in watched \/ p \in wskipped \/ p \in wfailed
        /\ wcur.kind = "Remove" => Range(wcur.paths) \cap watched = {}
        /\ (wcur.kind = "RenameBoth" /\ Len(wcur.paths) = 2) =>
               wcur.paths[1] \notin watched

C7_Witness ==
    /\ wpc = "send"
    /\ wcur.kind = "Create"
    /\ wcur.paths[wnext - 1] \in watched \ wbefore

(* C8: once every raised event has been handled, the watch set is the set  *)
(* of the paths present below the project that the ignore filter does not  *)
(* exclude (every operation having been made in watched directories).      *)
C8_WatchSetMatchesFs ==
    (wpc = "select" /\ notify_rx = <<>> /\ ~unseen) =>
        watched = {p \in WatchPaths : fs[p] # "none" /\ ~IsIgnore(p, fs[p] = "dir")}

(* C9: no path that the ignore filter excludes, taken as the kind of entry *)
(* it was when the event was raised, is added to the watch set by the      *)
(* event or has a change sent for it.                                      *)
C9_IgnoredNeverForwarded ==
    /\ wpc = "send" => ~IsIgnore(wcur.paths[wnext - 1], wcur.dirs[wnext - 1])
    /\ \A i \in 1..Len(wcur.paths) :
        wcur.paths[i] \in watched \ wbefore => ~IsIgnore(wcur.paths[i], wcur.dirs[i])

\* The kinds of raw event that are to be discarded: access, metadata, a
\* half of a rename alone, rename Any/Other and the kinds Any and Other.
RawDiscarded ==
    {"Access", "ModifyMetadata", "RenameFrom", "RenameTo", "RenameOther", "Other"}

(* C26: a handled raw event of a discarded kind (access, metadata, a       *)
(* rename half alone, rename Any/Other, kind Any/Other) has left the watch *)
(* set as it was and forwarded nothing; a handled content modification of  *)
(* watched files has left the watch set as it was and forwarded exactly    *)
(* one change per path, the classification of that path.                   *)
C26_DiscardedKindsNoEffect ==
    /\ \A kind \in RawDiscarded :
        Completed(kind) => (watched = wbefore /\ wsent = <<>> /\ wsending = Unset)
    /\ (Completed("Modify") /\ Range(wcur.paths) \subseteq wbefore) =>
        /\ watched = wbefore
        /\ wsent = [i \in 1..Len(wcur.paths) |-> to_build_trigger(wcur.paths[i])]
    /\ wcur.kind \in RawDiscarded => wpc \notin {"forward", "send"}

\* The first half of a rename of the watched index.html was handled alone.
C26_Witness ==
    /\ Completed("RenameFrom")
    /\ wcur.paths = <<Project \o <<"index.html">>>>
    /\ Project \o <<"index.html">> \in wbefore
    /\ notify_rx # <<>>

(* C29: a notification error is dropped: the step that takes it from the   *)
(* notify channel changes neither the watch set nor the change channel     *)
(* and leaves the worker in its select, where it handles the next event    *)
(* that waits; the error never ends the loop.                              *)
C29_NotifyErrorDropped ==
    /\ [](Completed("Error") =>
            /\ watched = wbefore
            /\ wsent = <<>>
            /\ wpc = "done" => wShutdown \in {"taken", "returned"}
            /\ (wpc = "select" /\ notify_rx # <<>>) => ENABLED WatcherHandle)
    /\ [][(/\ notify_rx # <<>>
            /\ Head(notify_rx).kind = "Error"
            /\ notify_rx' = Tail(notify_rx)) =>
                /\ watched' = watched
                /\ change_ch' = change_ch
                /\ wsending' = wsending
                /\ wpc' = "select"]_vars

\* The error was handled, and a modification of index.html that was
\* raised after it waits for the worker.
C29_Witness ==
    /\ Completed("Error")
    /\ wpc = "select"
    /\ wShutdown = "none"
    /\ watched = wbefore
    /\ Len(notify_rx) = 1
    /\ Head(notify_rx).kind = "Modify"
    /\ Head(notify_rx).paths = <<Project \o <<"index.html">>>>

----------------------------------------------------------------------------
(* Specification of handle_event on one event, for every event of a        *)
(* bounded set, every watch set near the seeded one and every tree near    *)
(* the initial one: the event waits in the notify channel and the worker   *)
(* handles it.                                                             *)

\* Most paths of one event.
MaxEventPaths == 2

\* The trees that differ from the initial one at one path at most, every
\* entry inside a directory.
PathTrees ==
    {t \in {[InitialFs EXCEPT ![p] = k] :
                p \in WatchPaths \ {Project}, k \in {"none", "file", "dir"}} :
        \A p \in WatchPaths \ {Project} : t[p] # "none" => t[Parent(p)] = "dir"}

\* The watch sets that differ from the seeded one at one path at most.
PathWatchSets ==
    {SeedWatchSet(InitialFs) \ {p} : p \in WatchPaths}
        \cup {SeedWatchSet(InitialFs) \cup {p} : p \in WatchPaths}

\* The lists of one to MaxEventPaths paths below the project.
PathLists ==
    UNION {[1..n -> WatchPaths \ {Project}] : n \in 1..MaxEventPaths}

\* The events whose handling calls add_paths or remove_paths.
PathEvents(tree) ==
    {Event(kind, paths, [i \in 1..Len(paths) |-> tree[paths[i]] = "dir"]) :
        kind \in {"Create", "Remove"}, paths \in PathLists}
    \cup {Event("RenameBoth", paths, [i \in 1..Len(paths) |-> tree[paths[i]] = "dir"]) :
            paths \in {l \in PathLists : Len(l) = 2}}

PathsInit ==
    /\ cpath = Project
    /\ cres = Unset
    /\ RebuildIdle
    /\ ChannelsInit
    /\ DebouncerInit
    /\ ReloadInit
    /\ DevInit
    /\ fs \in PathTrees
    /\ watched \in PathWatchSets
    /\ \E ev \in PathEvents(fs) : notify_rx = <<ev>>
    /\ wpc = "select"
    /\ wcur = NoEvent
    /\ wnext = 1
    /\ wsending = Unset
    /\ wShutdown = "none"
    /\ nOps = 0
    /\ unseen = FALSE
    /\ wbefore = {}
    /\ wsent = <<>>
    /\ wdropped = {}
    /\ wskipped = {}
    /\ wfailed = {}

PathsNext ==
    \/ WatcherHandle
    \/ WatcherForward
    \/ WatcherSend
    \/ WatcherHandled
    \/ DrainChange

SpecPaths == PathsInit /\ [][PathsNext]_vars

\* The paths that add_paths was called with, and remove_paths.
RemoveArgs(ev) ==
    IF ev.kind = "Remove" THEN Range(ev.paths)
    ELSE IF ev.kind = "RenameBoth" /\ Len(ev.paths) = 2 THEN {ev.paths[1]}
    ELSE {}

CallFailed == wfailed # {} \/ ~(RemoveArgs(wcur) \subseteq wbefore)

(* C30: a failed registration or unregistration of one path does not      *)
(* abort the event: every other path of the call is still registered or    *)
(* unregistered, and the changes of the event are still classified and     *)
(* forwarded, one per path that the filter lets through.                   *)
C30_FailureDoesNotAbort ==
    (wcur.kind \in {"Create", "Remove", "RenameBoth"} /\ CallFailed) =>
        /\ \A p \in AddArgs(wcur) :
            (~IsIgnore(p, IsDir(p)) /\ ~WatchFails(p)) => p \in watched
        /\ \A p \in RemoveArgs(wcur) : p \in watched => p \in AddArgs(wcur)
        /\ wpc = "select" => ForwardedPerKeptPath

\* The first path of a Create event could not be registered; the second
\* was, and a change was forwarded for each.
C30_Witness ==
    /\ Completed("Create")
    /\ Len(wcur.paths) = 2
    /\ wcur.paths[1] \in wfailed
    /\ wcur.paths[2] \in watched \ wbefore
    /\ Len(wsent) = 2

----------------------------------------------------------------------------
(* Specification of the reload connection alone.                           *)

ReloadOnlyInit ==
    /\ cpath = Project
    /\ cres = Unset
    /\ RebuildIdle
    /\ ChannelsInit
    /\ DebouncerInit
    /\ WatcherInit
    /\ ReloadInit
    /\ DevInit

ReloadNext ==
    \/ ReloadNotify
    \/ ReloadClose
    \/ ServerShutdown
    \/ \E c \in Clients : ReloadWs(c)
    \/ \E c \in Clients : WsUpgraded(c)
    \/ \E c \in Clients : WsShutdown(c)
    \/ \E c \in Clients : WsChanged(c)
    \/ \E c \in Clients : WsReloadClosed(c)
    \/ \E c \in Clients : WsSendOk(c)
    \/ \E c \in Clients : WsSendFail(c)
    \/ \E c \in Clients : WsClosed(c)
    \/ \E c \in Clients : ClientClose(c)

SpecReload == ReloadOnlyInit /\ [][ReloadNext]_vars

(* C10: a client that attached when the channel had advanced any number of *)
(* times is sent no reload frame before the channel advances again: while  *)
(* the version is the one of its attachment it has no frame and none is    *)
(* being sent, and it never has more frames than advances made since.      *)
C10_NoFrameBeforeNextAdvance ==
    \A c \in Clients :
        /\ version = cattach[c] => (cframes[c] = 0 /\ cst[c] # "send")
        /\ cframes[c] + (IF cst[c] = "send" THEN 1 ELSE 0) <= version - cattach[c]

\* A client attached after two advances waits in its select and has no
\* frame.
C10_Witness ==
    \E c \in Clients :
        /\ cst[c] = "select"
        /\ cattach[c] >= 2
        /\ version = cattach[c]
        /\ cframes[c] = 0

\* The connection loop of ws_notify is running for the client.
InLoop(c) == cst[c] \in {"select", "send"}

\* The reload connection with the scheduling its runtime gives: a ready
\* future is polled (an upgrade is completed, a push ends within its
\* timeout of one second), and select! takes a branch that stays or keeps
\* becoming ready, as it picks among the ready branches at random.
ReloadFairness ==
    \A c \in Clients :
        /\ WF_vars(WsUpgraded(c))
        /\ WF_vars(WsChanged(c))
        /\ WF_vars(WsSendOk(c) \/ WsSendFail(c))
        /\ SF_vars(WsShutdown(c))
        /\ SF_vars(WsReloadClosed(c))
        /\ SF_vars(WsClosed(c))

SpecReloadFair == SpecReload /\ ReloadFairness

(* C11: advances collapse.  When the client's task observes the channel it *)
(* marks every advance made so far as seen and starts one push; a frame is *)
(* only ever delivered by that push, one at a time; so the client's frames *)
(* never exceed the advances it has observed, nor those since it attached. *)
C11_AdvancesCollapse ==
    /\ [](\A c \in Clients :
            /\ cframes[c] + (IF cst[c] = "send" THEN 1 ELSE 0) <= cseen[c] - cattach[c]
            /\ cseen[c] <= version)
    /\ [][\A c \in Clients :
            /\ (cst[c] = "select" /\ cst'[c] = "send") => cseen'[c] = version
            /\ cframes'[c] # cframes[c] =>
                    (cst[c] = "send" /\ cframes'[c] = cframes[c] + 1)]_vars

\* Two advances were made after the client attached, and the client has
\* observed both at once: one frame was delivered and nothing is pending.
C11_Witness ==
    \E c \in Clients :
        /\ cst[c] = "select"
        /\ version - cattach[c] >= 2
        /\ cseen[c] = version
        /\ cframes[c] = 1

(* C12: for a client in its loop whose connection stays open, an advance   *)
(* it has not seen leads to one more frame delivered to it (unless the     *)
(* server shuts down or the channel closes).                               *)
C12_AdvanceLeadsToFrame ==
    \A c \in Clients : \A n \in 0..MaxAdvances :
        (InLoop(c) /\ HasChanged(c) /\ cframes[c] = n)
            ~> (cframes[c] > n \/ cclosed[c] \/ sShutdown \/ rclosed)

(* C13: the connection loop ends once the client has disconnected or the   *)
(* shutdown is signalled, whether it waits in its select or is pushing a   *)
(* frame.                                                                  *)
C13_LoopTerminates ==
    \A c \in Clients :
        (InLoop(c) /\ (cclosed[c] \/ sShutdown)) ~> cst[c] = "done"

\* A loop has ended on the disconnection of its client, after a frame and
\* with neither the shutdown signalled nor the channel closed.
C13_Witness ==
    \E c \in Clients :
        /\ cst[c] = "done"
        /\ cclosed[c]
        /\ cframes[c] > 0
        /\ ~sShutdown
        /\ ~rclosed

(* C14: a push that ends without the frame delivered (an error or the      *)
(* timeout) ends the connection loop.                                      *)
C14_FailedPushEndsLoop ==
    [][\A c \in Clients :
        (cst[c] = "send" /\ cst'[c] # "send" /\ cframes'[c] = cframes[c])
            => cst'[c] = "done"]_vars

----------------------------------------------------------------------------
(* The orchestrator: the thread spawned by dev (main.rs), which rebuilds   *)
(* for every debounced change and signals a reload, and dev itself, which  *)
(* stops the thread when the server has returned.                          *)

\* The debouncer's worker has ended and dropped its sender, and the output
\* channel is drained: recv on it returns an error.
OutClosed == dpc = "done" /\ out_ch = <<>>

\* A slip: a thread that ends with the debouncer's Handle kept alive.
OrchBuildFailedKeepsHandle ==
    /\ opc = "build"
    /\ opc' = "done"
    /\ UNCHANGED <<cvars, bvars, rvars, wvars, change_ch, dvars, ocur, mShutdown, wreleased,
                   oreloads, olog>>

\* build(BuildArgs::default(), true) fails: the thread returns and drops
\* what its closure owns, the debouncer's Handle among it.
OrchBuildFailed ==
    /\ opc = "build"
    /\ opc' = "done"
    /\ dShutdown' = "dropped"
    /\ UNCHANGED <<cvars, bvars, rvars, wvars, change_ch, now, out_ch, dpc, dWait, changes, expired,
                   dsending, dhist, ocur, mShutdown, wreleased, oreloads, olog>>

\* The first build succeeds; its reload signal is sent next.
OrchBuilt ==
    /\ opc = "build"
    /\ opc' = "reload"
    /\ UNCHANGED <<cvars, bvars, rvars, wvars, change_ch, dvars, ocur, mShutdown, wreleased,
                   oreloads, olog>>

\* reload_tx.send(()).ok(): the signal is handed to the server's task, or
\* the send fails at once when the server has returned; the result is
\* dropped either way.
OrchReload ==
    /\ opc = "reload"
    /\ oreloads' = IF ocur = Unset THEN oreloads ELSE oreloads + 1
    /\ ocur' = Unset
    /\ opc' = "wait"
    /\ UNCHANGED <<cvars, bvars, rvars, wvars, change_ch, dvars, mShutdown, wreleased, olog>>

\* Selector ... recv(debouncer.receiver(), |change| change.ok()) is Some:
\* rebuild is called for the change.
OrchTakeChange ==
    /\ opc = "wait"
    /\ out_ch # <<>>
    /\ ocur' = Head(out_ch)
    /\ out_ch' = Tail(out_ch)
    /\ opc' = "rebuild"
    /\ UNCHANGED <<cvars, bvars, rvars, wvars, change_ch, now, dpc, dWait, changes, expired, dsending,
                   dShutdown, dhist, mShutdown, wreleased, oreloads, olog>>

\* rebuild returns Ok: the reload signal is sent next.
OrchRebuilt ==
    /\ opc = "rebuild"
    /\ olog' = Append(olog, "ok")
    /\ opc' = "reload"
    /\ UNCHANGED <<cvars, bvars, rvars, wvars, change_ch, dvars, ocur, mShutdown, wreleased,
                   oreloads>>

\* A slip: the reload signal is sent after a failed rebuild as well.
OrchRebuildFailedReloads ==
    /\ opc = "rebuild"
    /\ olog' = Append(olog, "failed")
    /\ opc' = "reload"
    /\ UNCHANGED <<cvars, bvars, rvars, wvars, change_ch, dvars, ocur, mShutdown, wreleased,
                   oreloads>>

\* rebuild returns Err: the error is logged and the loop continues.
OrchRebuildFailed ==
    /\ opc = "rebuild"
    /\ olog' = Append(olog, "failed")
    /\ ocur' = Unset
    /\ opc' = "wait"
    /\ UNCHANGED <<cvars, bvars, rvars, wvars, change_ch, dvars, mShutdown, wreleased, oreloads>>

\* dev: server::run has returned; shutdown_tx.send(()), a rendezvous with
\* the thread's Selector.
MainShutdown ==
    /\ mShutdown = "none"
    /\ mShutdown' = "requested"
    /\ UNCHANGED <<cvars, bvars, rvars, wvars, change_ch, dvars, opc, ocur, wreleased, oreloads, olog>>

\* Selector ... recv(&shutdown_rx, |_| None), or the output channel closed:
\* the loop is left through debouncer.shutdown(), whose first step is
\* self.shutdown.send(()), a rendezvous with the debouncer's worker.
OrchTakeShutdown ==
    /\ opc = "wait"
    /\ mShutdown = "requested" \/ OutClosed
    /\ mShutdown' = IF mShutdown = "requested" THEN "taken" ELSE mShutdown
    /\ dShutdown' = IF dShutdown = "none" THEN "requested" ELSE dShutdown
    /\ opc' = "stop_debouncer"
    /\ UNCHANGED <<cvars, bvars, rvars, wvars, change_ch, now, out_ch, dpc, dWait, changes, expired,
                   dsending, dhist, ocur, wreleased, oreloads, olog>>

\* debouncer.shutdown() has returned the watcher's Handle; its shutdown()
\* is called: self.shutdown.send(()), a rendezvous with the watcher's worker.
OrchStopWatcher ==
    /\ opc = "stop_debouncer"
    /\ dShutdown = "returned"
    /\ wShutdown' = IF wShutdown = "none" THEN "requested" ELSE wShutdown
    /\ opc' = "stop_watcher"
    /\ UNCHANGED <<cvars, bvars, rvars, change_ch, dvars, fs, watched, notify_rx, wpc, wcur, wnext,
                   wsending, whist, ocur, mShutdown, wreleased, oreloads, olog>>

\* The watcher's shutdown() has returned: the thread ends.
OrchStopped ==
    /\ opc = "stop_watcher"
    /\ wShutdown = "returned"
    /\ opc' = "done"
    /\ UNCHANGED <<cvars, bvars, rvars, wvars, change_ch, dvars, ocur, mShutdown, wreleased,
                   oreloads, olog>>

\* dev: thread.join() returns when the thread has ended (the send before
\* it fails at once when the thread ended on its own).
MainJoined ==
    /\ mShutdown \in {"requested", "taken"}
    /\ opc = "done"
    /\ mShutdown' = "joined"
    /\ UNCHANGED <<cvars, bvars, rvars, wvars, change_ch, dvars, opc, ocur, wreleased, oreloads, olog>>

DevOnlyInit ==
    /\ cpath = Project
    /\ cres = Unset
    /\ RebuildIdle
    /\ ChannelsInit
    /\ DebouncerInit
    /\ WatcherInit
    /\ ReloadInit
    /\ DevInit

\* The watcher's worker.
WatcherStep ==
    \/ WatcherHandle
    \/ WatcherForward
    \/ WatcherSend
    \/ WatcherSendFailed
    \/ WatcherHandled
    \/ WatcherShutdown

\* The debouncer's worker.
DebouncerStep ==
    \/ DebouncerRecv
    \/ DebouncerShutdown
    \/ DebouncerTimeout
    \/ DebouncerFlush
    \/ DebouncerSend
    \/ DebouncerSendFailed
    \/ DebouncerSwept

\* The orchestrator's thread and dev.
OrchStep ==
    \/ OrchBuildFailed
    \/ OrchBuilt
    \/ OrchReload
    \/ OrchTakeChange
    \/ OrchRebuilt
    \/ OrchRebuildFailed
    \/ OrchTakeShutdown
    \/ DebouncerJoined
    \/ OrchStopWatcher
    \/ WatcherJoined
    \/ OrchStopped
    \/ MainShutdown
    \/ MainJoined

DevNext ==
    \/ FsModify
    \/ WatcherStep
    \/ DebouncerStep
    \/ OrchStep
    \/ Tick

SpecDev == DevOnlyInit /\ [][DevNext]_vars

(* C15: when shutdown of the watcher's or of the debouncer's Handle has    *)
(* returned, the worker's thread has ended (and the watcher's has released *)
(* its registrations); from then on the worker handles no event, takes no  *)
(* change and puts nothing on its channel.                                 *)
C15_ShutdownJoinsWorker ==
    /\ [](/\ wShutdown = "returned" => (wpc = "done" /\ wreleased)
          /\ dShutdown = "returned" => dpc = "done")
    /\ [][/\ wShutdown = "returned" =>
                /\ UNCHANGED <<wpc, wcur, wsent, watched, notify_rx>>
                /\ Len(change_ch') <= Len(change_ch)
          /\ dShutdown = "returned" =>
                /\ UNCHANGED <<dpc, changes, nRecv, nEmit>>
                /\ Len(out_ch') <= Len(out_ch)]_vars

\* Both shutdowns have returned while an event was still to be handled and
\* a change was pending in the debouncer: both are left where they are.
C15_Witness ==
    /\ wShutdown = "returned"
    /\ dShutdown = "returned"
    /\ notify_rx # <<>>
    /\ DOMAIN changes # {}

\* The rebuilds of changes that succeeded so far.
Succeeded == Cardinality({i \in DOMAIN olog : olog[i] = "ok"})

\* The changes the debouncer has emitted so far.
Emitted == nEmit[Html] + nEmit[Css] + nEmit[Rust]

(* C20: a reload signal is sent for a change exactly when its rebuild has  *)
(* succeeded; every emitted change is rebuilt for once, whether the        *)
(* rebuild fails or not; and a failed rebuild takes the loop back to its   *)
(* wait with no signal sent and the change not put back.                   *)
C20_ReloadIffRebuilt ==
    /\ [](/\ oreloads + (IF opc = "reload" /\ ocur # Unset THEN 1 ELSE 0) = Succeeded
          /\ Len(olog) + (IF opc = "rebuild" THEN 1 ELSE 0) + Len(out_ch) = Emitted)
    /\ [][(olog' # olog /\ olog'[Len(olog')] = "failed") =>
                /\ opc' = "wait"
                /\ oreloads' = oreloads
                /\ out_ch' = out_ch]_vars

\* A rebuild failed, the next change was rebuilt for and its signal sent.
C20_Witness ==
    /\ olog = <<"failed", "ok">>
    /\ oreloads = 1
    /\ opc = "wait"

----------------------------------------------------------------------------
(* The pipeline of dev under many saves of index.html, enough to fill a    *)
(* channel of CHANNEL_SIZE changes: one after the other, each when the     *)
(* change of the one before has been emitted, or in one burst.             *)

\* Most saves of index.html, and the last instant of the clock, here.
MaxSaves == 17
MaxLongTime == 70

\* index.html is written: notify raises a Modify event for it.
DevSave ==
    /\ nOps < MaxSaves
    /\ ~wreleased
    /\ LET p == Project \o <<"index.html">> IN
        /\ p \in watched
        /\ Raise(<<Event("Modify", <<p>>, <<FALSE>>)>>, {})
    /\ nOps' = nOps + 1
    /\ UNCHANGED <<cvars, bvars, rvars, pvars, change_ch, dvars, fs, watched, wpc, wcur, wnext,
                   wsending, wShutdown, wbefore, wsent, wdropped, wskipped, wfailed>>

\* Nothing of an earlier save is left in the pipeline before the orchestrator.
PipelineIdle ==
    /\ notify_rx = <<>>
    /\ wpc = "select"
    /\ change_ch = <<>>
    /\ dpc = "wait"
    /\ DOMAIN changes = {}

\* index.html is written when the change of the save before is emitted.
DevSaveIdle == PipelineIdle /\ DevSave

\* Time passes while the debouncer's worker waits with a change pending,
\* up to the long horizon.
LongTick ==
    /\ now < MaxLongTime
    /\ dpc # "done"
    /\ DOMAIN changes # {}
    /\ ~DebouncerReady
    /\ now' = now + 1
    /\ UNCHANGED <<cvars, bvars, rvars, pvars, wvars, change_ch, out_ch, dpc, dWait, changes, expired,
                   dsending, dShutdown, dhist>>

\* The steps of dev when every build succeeds.
DevBuildsNext ==
    \/ WatcherHandle
    \/ WatcherForward
    \/ WatcherSend
    \/ WatcherHandled
    \/ WatcherShutdown
    \/ DebouncerRecv
    \/ DebouncerShutdown
    \/ OrchBuilt
    \/ OrchReload
    \/ OrchTakeChange
    \/ OrchRebuilt
    \/ MainShutdown
    \/ OrchTakeShutdown
    \/ DebouncerJoined
    \/ OrchStopWatcher
    \/ WatcherJoined
    \/ OrchStopped
    \/ MainJoined

DevBacklogNext ==
    \/ DevSaveIdle
    \/ DevBuildsNext
    \/ DebouncerTimeout
    \/ DebouncerFlush
    \/ DebouncerSend
    \/ DebouncerSwept
    \/ LongTick

SpecDevBacklog == DevOnlyInit /\ [][DevBacklogNext]_vars

MaxCloseOps == 1
MaxCloseTime == 5

\* A file is written, a bounded number of times.
CloseModify == nOps < MaxCloseOps /\ FsModify

\* Time passes, up to a short horizon.
CloseTick == now < MaxCloseTime /\ Tick

DevCloseNext == CloseModify \/ WatcherStep \/ DebouncerStep \/ OrchStep \/ CloseTick

\* The orchestrator's way out of its loop: the else branch of the wait.
OrchShutdownStep ==
    \/ OrchTakeShutdown
    \/ DebouncerJoined
    \/ OrchStopWatcher
    \/ WatcherJoined
    \/ OrchStopped

\* Every thread that can take a step takes one: the threads are scheduled
\* by the operating system, none of them is starved.  Nothing makes a
\* build end or the server return.
DevFairness ==
    /\ WF_vars(WatcherStep)
    /\ WF_vars(DebouncerStep)
    /\ WF_vars(OrchShutdownStep)

SpecDevFair == DevOnlyInit /\ [][DevCloseNext]_vars /\ DevFairness

DevBurstNext ==
    \/ DevSave
    \/ WatcherHandle
    \/ WatcherForward
    \/ WatcherSend
    \/ WatcherHandled
    \/ WatcherShutdown
    \/ DebouncerRecv
    \/ DebouncerShutdown
    \/ OrchBuilt
    \/ OrchReload
    \/ MainShutdown
    \/ OrchTakeShutdown
    \/ DebouncerJoined
    \/ OrchStopWatcher
    \/ WatcherJoined
    \/ OrchStopped
    \/ MainJoined

SpecDevBurst == DevOnlyInit /\ [][DevBurstNext]_vars

----------------------------------------------------------------------------
(* dev with its server: the orchestrator's thread, the task of run that    *)
(* forwards its reload signals, the clients, and dev waiting in            *)
(* server::run.  mShutdown is "none" while server::run is running and      *)
(* "served" when it has returned.                                          *)

MaxEmits == 1

EmitCount == nEmit[Html] + nEmit[Css] + nEmit[Rust]

\* The debouncer's worker, as seen from its output channel: tx.send(change)
\* of a change whose window has passed.
DebouncedChange ==
    /\ dpc = "wait"
    /\ dShutdown = "none"
    /\ EmitCount < MaxEmits
    /\ Len(out_ch) < CHANNEL_SIZE
    /\ \E k \in DebounceKeys :
          /\ out_ch' = Append(out_ch, k)
          /\ nEmit' = [nEmit EXCEPT ![k] = @ + 1]
    /\ UNCHANGED <<cvars, bvars, rvars, pvars, wvars, change_ch, now, dpc, dWait, changes, expired,
                   dsending, dShutdown, nFed, firstRecv, lastRecv, nRecv, owed>>

\* A slip: a sender that waits until every attached client has taken the
\* last value.
ServeReloadSentWhenSeen ==
    /\ opc = "reload"
    /\ mShutdown = "none"
    /\ ~rclosed
    /\ \A c \in Clients : cst[c] \in {"idle", "done"} \/ (cst[c] = "select" /\ cseen[c] = version)
    /\ version' = version + 1
    /\ oreloads' = IF ocur = Unset THEN oreloads ELSE oreloads + 1
    /\ ocur' = Unset
    /\ opc' = "wait"
    /\ UNCHANGED <<cvars, bvars, wvars, change_ch, dvars, mShutdown, wreleased, olog, rclosed,
                   sShutdown, cst, cseen, cclosed, cframes, cattach>>

\* reload_tx.send(()) meets rebuild.recv_async() of run's task, which puts
\* a new value in the watch channel with tx.send(()) and waits again.
ServeReloadSent ==
    /\ opc = "reload"
    /\ mShutdown = "none"
    /\ ~rclosed
    /\ version' = version + 1
    /\ oreloads' = IF ocur = Unset THEN oreloads ELSE oreloads + 1
    /\ ocur' = Unset
    /\ opc' = "wait"
    /\ UNCHANGED <<cvars, bvars, wvars, change_ch, dvars, mShutdown, wreleased, olog, rclosed,
                   sShutdown, cst, cseen, cclosed, cframes, cattach>>

\* reload_tx.send(()) after server::run has returned: the receiver is
\* dropped, the send fails at once and .ok() drops the error.
ServeReloadFailed ==
    /\ opc = "reload"
    /\ mShutdown # "none"
    /\ OrchReload

\* run's task: rebuild.recv_async() fails when the orchestrator's thread
\* has ended and dropped reload_tx; the task ends and drops tx.
ServeReloadClose ==
    /\ opc = "done"
    /\ mShutdown = "none"
    /\ ReloadClose

\* run_server has returned and block_on with it: the runtime is dropped
\* with every task on it, run's task (and the reload receiver it owns) and
\* the clients' tasks.
ServerReturned ==
    /\ sShutdown
    /\ mShutdown = "none"
    /\ mShutdown' = "served"
    /\ rclosed' = TRUE
    /\ cst' = [c \in Clients |-> IF cst[c] = "idle" THEN "idle" ELSE "done"]
    /\ UNCHANGED <<cvars, bvars, wvars, change_ch, dvars, opc, ocur, wreleased, oreloads, olog,
                   version, sShutdown, cseen, cclosed, cframes, cattach>>

\* dev: server::run has returned; shutdown_tx.send(()), a rendezvous with
\* the thread's Selector.
ServeMainShutdown ==
    /\ mShutdown = "served"
    /\ mShutdown' = "requested"
    /\ UNCHANGED <<cvars, bvars, rvars, wvars, change_ch, dvars, opc, ocur, wreleased, oreloads, olog>>

ServeClient(c) ==
    \/ ReloadWs(c)
    \/ WsUpgraded(c)
    \/ WsShutdown(c)
    \/ WsChanged(c)
    \/ WsReloadClosed(c)
    \/ WsSendOk(c)
    \/ WsSendFail(c)
    \/ WsClosed(c)
    \/ ClientClose(c)

ServeNext ==
    \/ DebouncedChange
    \/ OrchBuildFailed
    \/ OrchBuilt
    \/ ServeReloadSent
    \/ ServeReloadFailed
    \/ OrchTakeChange
    \/ OrchRebuilt
    \/ OrchRebuildFailed
    \/ OrchTakeShutdown
    \/ DebouncerShutdown
    \/ DebouncerJoined
    \/ OrchStopWatcher
    \/ WatcherShutdown
    \/ WatcherJoined
    \/ OrchStopped
    \/ ServeReloadClose
    \/ ServerShutdown
    \/ ServerReturned
    \/ ServeMainShutdown
    \/ MainJoined
    \/ \E c \in Clients : ServeClient(c)

SpecServe == DevOnlyInit /\ [][ServeNext]_vars

(* C32: the orchestrator's reload send is never held up: whenever the      *)
(* thread is at the send, the send has a step to take, whatever the        *)
(* clients are doing; while server::run is running the step hands the      *)
(* signal over (a new value in the channel), and once server::run has      *)
(* returned the step is the failing one, which changes nothing in the      *)
(* channel.                                                                *)
C32_ReloadSendNeverBlocks ==
    /\ [](opc = "reload" =>
            /\ ENABLED (ServeReloadSent \/ ServeReloadFailed)
            /\ mShutdown # "none" => (ENABLED ServeReloadFailed /\ ~ENABLED ServeReloadSent))
    /\ [][(opc = "reload" /\ opc' # "reload") =>
            /\ opc' = "wait"
            /\ version' = IF mShutdown = "none" THEN version + 1 ELSE version]_vars

\* The orchestrator is at its send after a rebuild while a client that has
\* not seen the last value is in a frame send.
C32_Witness ==
    /\ opc = "reload"
    /\ ocur # Unset
    /\ \E c \in Clients : cst[c] = "send" /\ cframes[c] = 0 /\ ~cclosed[c]

\* handle_event has run to its end for the event taken last: every path
\* of a kind that is not discarded was either sent or filtered out.
EventComplete ==
    wcur # NoEvent =>
        \/ wcur.kind \in DiscardedKinds
        \/ /\ wnext > Len(wcur.paths)
           /\ Len(wsent) + Cardinality(wdropped) = Len(wcur.paths)

(* C33: the watcher's worker leaves its loop only from the select between  *)
(* events: while it is handling an event the shutdown has no step to take, *)
(* in the state it exits in the event taken last has been handled to its   *)
(* end (every mutation of the watch set, every forward), and once the      *)
(* signal is accepted no event is taken, the watch set does not change     *)
(* and no change is sent.  The mutations of the watch set are made when    *)
(* the event is taken, before any forward.                                 *)
C33_ShutdownNotPreemptive ==
    /\ [](/\ wpc \in {"forward", "send"} => ~ENABLED WatcherShutdown
          /\ wpc = "done" => EventComplete)
    /\ [][/\ (wpc # "done" /\ wpc' = "done") => (wpc = "select" /\ EventComplete)
          /\ wcur' # wcur => (wpc = "select" /\ watched' = Mutated(watched, wcur'))
          /\ wShutdown \in {"taken", "returned"} =>
                /\ UNCHANGED <<wcur, wnext, watched, wsent>>
                /\ Len(notify_rx') >= Len(notify_rx)
                /\ Len(change_ch') <= Len(change_ch)]_vars

\* The worker has exited on the signal after a rename whose two paths were
\* both forwarded, and an event it never took is left in the channel.
C33_Witness ==
    /\ wpc = "done"
    /\ wShutdown = "taken"
    /\ Len(wcur.paths) = 2
    /\ Len(wsent) = 2
    /\ notify_rx # <<>>

\* A whole sweep interval has passed since the last change was received.
QuietInterval ==
    \A c \in PendingKeys : nRecv[c] > 0 => now - lastRecv[c] >= SweepInterval

(* C34: the debouncer sweeps only on a timeout of its wait: while it is    *)
(* sweeping, a whole sweep interval has passed in which it received        *)
(* nothing and was not asked to stop; a change is put on the output        *)
(* channel only within a sweep; and the iteration that receives a change   *)
(* goes back to waiting without collecting or emitting anything.           *)
C34_SweepOnlyOnTimeout ==
    /\ [](dpc \in {"flush", "send"} =>
            /\ now - dWait >= SweepInterval
            /\ QuietInterval
            /\ dShutdown # "taken")
    /\ [][/\ Len(out_ch') > Len(out_ch) => dpc = "send"
          /\ (dpc = "wait" /\ dpc' = "flush") =>
                (change_ch = <<>> /\ dShutdown # "requested" /\ UNCHANGED <<changes, nRecv>>)
          /\ nRecv' # nRecv =>
                /\ dpc = "wait" /\ dpc' = "wait"
                /\ expired = {} /\ expired' = {}
                /\ UNCHANGED <<out_ch, nEmit, dsending>>]_vars

\* A sweep emits Html while Css, received in an earlier iteration that did
\* not sweep, is still pending.
C34_Witness ==
    /\ dpc = "send"
    /\ dsending = Html
    /\ Css \in DOMAIN changes
    /\ nRecv[Html] > 1

(* C35: the debouncer's worker leaves its loop without sending anything:   *)
(* the step that ends it puts nothing on the output channel, it is not in  *)
(* the middle of a sweep, and from then on its map, with whatever is still *)
(* pending in it, stays as it is, nothing is emitted and the output        *)
(* channel only shrinks.                                                   *)
C35_PendingDiscardedAtStop ==
    /\ [](dpc = "done" => (dsending = Unset /\ expired = {}))
    /\ [][/\ (dpc # "done" /\ dpc' = "done") => UNCHANGED <<out_ch, changes, nEmit>>
          /\ dpc = "done" =>
                /\ UNCHANGED <<dpc, changes, nEmit, dsending, expired>>
                /\ Len(out_ch') <= Len(out_ch)]_vars

\* The worker has stopped with a change pending in its map that was never
\* emitted, and the orchestrator has since emptied the output channel.
C35_Witness ==
    /\ dpc = "done"
    /\ Html \in DOMAIN changes
    /\ nEmit[Html] = 0
    /\ out_ch = <<>>
    /\ opc = "done"

\* The thread has ended without going through the shutdown of its loop:
\* the first build failed.
InitialBuildFailed == opc = "done" /\ dShutdown # "returned"

(* C36: when the first build of dev fails, the thread ends at once, out of *)
(* the state "build" and without a reload signal or a rebuild, then or     *)
(* later, whatever changes the pipeline still holds; the debouncer's and   *)
(* then the watcher's worker end because their shutdown senders are        *)
(* dropped, never on a signal; and the failure itself changes nothing for  *)
(* dev, which stays in server::run until the server returns.               *)
C36_InitialBuildFailure ==
    /\ [](InitialBuildFailed =>
            /\ dShutdown = "dropped"
            /\ wShutdown \in {"none", "dropped"}
            /\ ocur = Unset /\ olog = <<>> /\ oreloads = 0
            /\ version = InitialVersion)
    /\ [][/\ InitialBuildFailed' =>
                \/ InitialBuildFailed
                \/ opc = "build" /\ UNCHANGED <<mShutdown, sShutdown, rclosed, out_ch, change_ch>>
          /\ InitialBuildFailed => (opc' = "done" /\ Len(out_ch') <= Len(out_ch))]_vars
    /\ InitialBuildFailed ~> (dpc = "done" /\ wpc = "done" /\ wShutdown = "dropped")

\* The first build has failed while a debounced change was waiting in the
\* output channel: both workers have ended on the closure, the change is
\* left where it is, and dev is still in server::run.
C36_Witness ==
    /\ InitialBuildFailed
    /\ dpc = "done"
    /\ wpc = "done"
    /\ wShutdown = "dropped"
    /\ out_ch = <<Html>>
    /\ mShutdown = "none"

(* C38: the workers stop in the order orchestrator loop, debouncer,        *)
(* watcher on every path by which dev returns: the watcher is asked to     *)
(* stop, or loses its shutdown sender, only when the debouncer's worker    *)
(* has ended, the debouncer only when the orchestrator has left its loop,  *)
(* and when dev has returned the orchestrator's thread has ended and both  *)
(* workers have been joined.                                               *)
C38_OrderedJoinedShutdown ==
    /\ [](/\ wShutdown # "none" => dpc = "done"
          /\ dShutdown # "none" => opc \in {"stop_debouncer", "stop_watcher", "done"}
          /\ mShutdown = "joined" =>
                /\ opc = "done"
                /\ dpc = "done" /\ dShutdown = "returned"
                /\ wpc = "done" /\ wShutdown = "returned")

(* C39: the connection loop ends when the reload sender is dropped: a      *)
(* client in its select then has the returning branch to take; when it has *)
(* seen the last value it cannot start a push, and the step it takes out   *)
(* of the select ends the loop with no frame sent; and every client in     *)
(* the loop when the sender is gone ends its loop.                         *)
C39_ClosedSenderEndsLoop ==
    /\ [](\A c \in Clients :
            (cst[c] = "select" /\ rclosed) =>
                /\ ENABLED WsReloadClosed(c)
                /\ ~HasChanged(c) => ~ENABLED WsChanged(c))
    /\ [][\A c \in Clients :
            (cst[c] = "select" /\ rclosed /\ ~HasChanged(c) /\ cst'[c] # cst[c]) =>
                (cst'[c] = "done" /\ cframes'[c] = cframes[c])]_vars
    /\ \A c \in Clients : (InLoop(c) /\ rclosed) ~> (cst[c] = "done")

\* A client whose connection is open has left its loop, with the frame of
\* the one advance it saw, while the server is running: the sender is gone.
C39_Witness ==
    \E c \in Clients :
        /\ cst[c] = "done"
        /\ rclosed
        /\ ~sShutdown
        /\ ~cclosed[c]
        /\ cframes[c] = 1

(* C31: no channel of the pipeline ever holds more than CHANNEL_SIZE       *)
(* items, and a full channel blocks its producer instead of losing         *)
(* anything: the watcher's worker facing a full change channel has no step *)
(* to take and keeps its change; the change channel only ever grows by     *)
(* the change the worker is sending, at its end, and shrinks by its first  *)
(* item, which the debouncer stores; and the worker lets go of a change    *)
(* only by putting it on the channel, unless the channel is closed.        *)
C31_BoundedNoDrop ==
    /\ [](/\ Len(notify_rx) <= CHANNEL_SIZE
          /\ Len(change_ch) <= CHANNEL_SIZE
          /\ Len(out_ch) <= CHANNEL_SIZE
          /\ (wpc = "send" /\ Len(change_ch) = CHANNEL_SIZE /\ wShutdown # "dropped") =>
                (~ENABLED WatcherStep /\ wsending # Unset))
    /\ [][/\ change_ch' # change_ch =>
                \/ wpc = "send" /\ change_ch' = Append(change_ch, wsending)
                \/ /\ change_ch # <<>>
                   /\ change_ch' = Tail(change_ch)
                   /\ dpc = "wait"
                   /\ Head(change_ch) \in DOMAIN changes'
          /\ (wsending # Unset /\ wsending' = Unset) =>
                \/ change_ch' = Append(change_ch, wsending)
                \/ wShutdown = "dropped"]_vars

\* The change channel is full and the watcher's worker is blocked in the
\* send of one more change, which the debouncer can make room for.
C31_Witness ==
    /\ wpc = "send"
    /\ wsending = Html
    /\ Len(change_ch) = CHANNEL_SIZE
    /\ dpc = "wait"
    /\ dShutdown = "none"

(* C16: while the orchestrator is inside debouncer.shutdown(), neither     *)
(* receiving from the output channel nor doing anything else, the          *)
(* debouncer's worker always has a step to take, so that it comes to its   *)
(* select, takes the signal and ends: shutdown() is never stuck.           *)
C16_DebouncerShutdownNotStuck ==
    (opc = "stop_debouncer" /\ dShutdown = "requested") => ENABLED DebouncerStep

(* C17: while the orchestrator is inside the watcher's shutdown(), the     *)
(* watcher's worker always has a step to take, so that it comes to its     *)
(* select, takes the signal and ends: shutdown() is never stuck, a full    *)
(* change channel that the stopped debouncer no longer drains included.    *)
C17_WatcherShutdownNotStuck ==
    (opc = "stop_watcher" /\ wShutdown = "requested") => ENABLED WatcherStep

-----------------------------------------------------------------------------
(* The start of the watcher: watch() from the creation of the notify       *)
(* watcher to thread::spawn.  wpc is "ignore" before the .gitignore file   *)
(* is added to the builder, "seed" during the seed scan and "failed" when  *)
(* watch() has returned an error; the worker exists from "select" on.      *)

BootInit ==
    /\ cpath = Project
    /\ cres = Unset
    /\ RebuildIdle
    /\ ChannelsInit
    /\ DebouncerInit
    /\ ReloadInit
    /\ DevInit
    /\ fs = InitialFs
    /\ watched = {}
    /\ notify_rx = <<>>
    /\ wpc = "ignore"
    /\ wcur = NoEvent
    /\ wnext = 1
    /\ wsending = Unset
    /\ wShutdown = "none"
    /\ nOps = 0
    /\ unseen = FALSE
    /\ wbefore = {}
    /\ wsent = <<>>
    /\ wdropped = {}
    /\ wskipped = {}
    /\ wfailed = {}

\* The entries the walker yields next: an entry that no rule excludes and
\* that is not registered yet, a directory before what it holds.
SeedLeft ==
    {p \in SeedWatchSet(fs) \ watched : p = Project \/ Parent(p) \in watched}

\* The worker thread exists.
Spawned == wpc \in {"select", "forward", "send", "done"}

\* builder.add(project.join(".gitignore")) returns None and build() Ok.
BootIgnoreLoaded ==
    /\ wpc = "ignore"
    /\ wpc' = "seed"
    /\ UNCHANGED <<cvars, bvars, rvars, pvars, change_ch, dvars, fs, watched, notify_rx, wcur, wnext,
                   wsending, wShutdown, whist>>

\* builder.add returns Some(error), the file is missing, unreadable or has
\* a line that is no glob: return Err.  The notify watcher is dropped.
BootIgnoreFailed ==
    /\ wpc = "ignore"
    /\ wpc' = "failed"
    /\ wfailed' = {Project \o <<".gitignore">>}
    /\ wreleased' = TRUE
    /\ UNCHANGED <<cvars, bvars, rvars, change_ch, dvars, fs, watched, notify_rx, wcur, wnext,
                   wsending, wShutdown, nOps, unseen, wbefore, wsent, wdropped, wskipped,
                   opc, ocur, mShutdown, oreloads, olog>>

\* One turn of the seed loop: the entry is read and registered.
BootSeedEntry ==
    /\ wpc = "seed"
    /\ \E p \in SeedLeft : watched' = watched \cup {p}
    /\ UNCHANGED <<cvars, bvars, rvars, pvars, change_ch, dvars, fs, notify_rx, wpc, wcur, wnext,
                   wsending, wShutdown, whist>>

\* A slip: the failure is logged and the scan goes on with the next entry.
BootSeedFailedLogged ==
    /\ wpc = "seed"
    /\ \E p \in SeedLeft : wfailed' = {p}
    /\ UNCHANGED <<cvars, bvars, rvars, pvars, change_ch, dvars, fs, watched, notify_rx, wpc, wcur,
                   wnext, wsending, wShutdown, nOps, unseen, wbefore, wsent, wdropped,
                   wskipped>>

\* One turn of the seed loop fails, in `entry?` (the walker cannot read the
\* entry) or in `watcher.watch(..)?` (the watch cannot be added): return
\* Err.  The notify watcher is dropped, and its registrations with it.
BootSeedFailed ==
    /\ wpc = "seed"
    /\ \E p \in SeedLeft : wfailed' = {p}
    /\ wpc' = "failed"
    /\ wreleased' = TRUE
    /\ UNCHANGED <<cvars, bvars, rvars, change_ch, dvars, fs, watched, notify_rx, wcur, wnext,
                   wsending, wShutdown, nOps, unseen, wbefore, wsent, wdropped, wskipped,
                   opc, ocur, mShutdown, oreloads, olog>>

\* The walker is exhausted: the channels are made and the worker is
\* spawned into its Selector; watch() returns the Handle.
BootSpawn ==
    /\ wpc = "seed"
    /\ SeedLeft = {}
    /\ wpc' = "select"
    /\ UNCHANGED <<cvars, bvars, rvars, pvars, change_ch, dvars, fs, watched, notify_rx, wcur, wnext,
                   wsending, wShutdown, whist>>

BootNext ==
    \/ BootIgnoreLoaded
    \/ BootIgnoreFailed
    \/ BootSeedEntry
    \/ BootSeedFailed
    \/ BootSpawn
    \/ WatchNext

SpecBoot == BootInit /\ [][BootNext]_vars

----------------------------------------------------------------------------
(* The start of the watcher with the project's .gitignore file as part of  *)
(* the tree: "file" when it can be read and every line is a glob, "none"   *)
(* when there is no such file, "locked" when it cannot be opened, "bad"    *)
(* when a line of it is no glob.                                           *)

IgnoreFile == Project \o <<".gitignore">>

IgnoreStates == {"file", "none", "locked", "bad"}

\* A slip: a builder for which a file that cannot be opened has no rules.
GitignoreAddLenient(state) == IF state = "bad" THEN "error" ELSE "none"

\* GitignoreBuilder::add: Some(error) when the file cannot be opened or
\* read, or when a line does not parse; None otherwise.
GitignoreAdd(state) == IF state = "file" THEN "none" ELSE "error"

\* if let Some(error) = builder.add(..) is not taken; builder.build() is Ok.
BootIgnoreRead ==
    /\ GitignoreAdd(fs[IgnoreFile]) = "none"
    /\ BootIgnoreLoaded

\* if let Some(error) = builder.add(..) { return Err(error.into()) }.
BootIgnoreError ==
    /\ GitignoreAdd(fs[IgnoreFile]) = "error"
    /\ BootIgnoreFailed

IgnoreInit ==
    /\ cpath = Project
    /\ cres = Unset
    /\ RebuildIdle
    /\ ChannelsInit
    /\ DebouncerInit
    /\ ReloadInit
    /\ DevInit
    /\ \E state \in IgnoreStates :
          fs = [p \in WatchPaths \cup {IgnoreFile} |->
                  IF p = IgnoreFile THEN state ELSE InitialFs[p]]
    /\ watched = {}
    /\ notify_rx = <<>>
    /\ wpc = "ignore"
    /\ wcur = NoEvent
    /\ wnext = 1
    /\ wsending = Unset
    /\ wShutdown = "none"
    /\ nOps = 0
    /\ unseen = FALSE
    /\ wbefore = {}
    /\ wsent = <<>>
    /\ wdropped = {}
    /\ wskipped = {}
    /\ wfailed = {}

MaxIgnoreOps == 1

\* The project changes, a bounded number of times.
IgnoreFsOp ==
    /\ nOps < MaxIgnoreOps
    /\ FsCreate \/ FsModify \/ FsRemove \/ FsRename \/ FsNoise \/ NotifyError

IgnoreNext ==
    \/ BootIgnoreRead
    \/ BootIgnoreError
    \/ BootSeedEntry
    \/ BootSeedFailed
    \/ BootSpawn
    \/ IgnoreFsOp
    \/ WatcherHandle
    \/ WatcherForward
    \/ WatcherSend
    \/ WatcherHandled
    \/ WatcherShutdown
    \/ RequestWatcherShutdown
    \/ DrainChange

SpecIgnore == IgnoreInit /\ [][IgnoreNext]_vars

(* C37: watch() returns an error, with nothing registered and no worker    *)
(* spawned, whenever the project's .gitignore cannot be added in full:     *)
(* when it is missing or cannot be opened just as when a line of it is     *)
(* malformed.  Such a project never has a worker or a registration, and    *)
(* what happens in it afterwards reaches nobody.                           *)
C37_MissingIgnoreFails ==
    /\ [](/\ fs[IgnoreFile] # "file" =>
                (wpc \in {"ignore", "failed"} /\ watched = {} /\ ~Spawned)
          /\ wpc = "failed" =>
                /\ wreleased /\ change_ch = <<>>
                /\ ~ENABLED WatcherStep)
    /\ [][(wpc = "ignore" /\ wpc' # "ignore") =>
            wpc' = IF fs[IgnoreFile] = "file" THEN "seed" ELSE "failed"]_vars

\* The project has no .gitignore: watch() has failed, and a later change
\* of the project went unnoticed.
C37_Witness ==
    /\ fs[IgnoreFile] = "none"
    /\ wpc = "failed"
    /\ nOps = 1
    /\ notify_rx = <<>>

\* The paths of a project that is a git repository with a build directory.
RepoPaths ==
    WatchPaths \cup {Project \o <<".git">>, Project \o <<".git", "HEAD">>,
                     Project \o <<"target", "debug">>}

\* The repository: the initial tree, .git with HEAD, and target/debug.
RepoFs ==
    [p \in RepoPaths |->
        IF p \in DOMAIN InitialFs /\ InitialFs[p] # "none" THEN InitialFs[p]
        ELSE IF p \in {Project \o <<".git">>, Project \o <<"target", "debug">>} THEN "dir"
        ELSE IF p = Project \o <<".git", "HEAD">> THEN "file"
        ELSE "none"]

\* The repository, and the trees that differ from it at one path, every
\* entry inside a directory.
RepoTrees ==
    {t \in {[RepoFs EXCEPT ![p] = k] :
                p \in RepoPaths \ {Project}, k \in {"none", "file", "dir"}} :
        \A p \in RepoPaths \ {Project} : t[p] # "none" => t[Parent(p)] = "dir"}

\* watch() is called on one of the trees.
SeedInit ==
    /\ cpath = Project
    /\ cres = Unset
    /\ RebuildIdle
    /\ ChannelsInit
    /\ DebouncerInit
    /\ ReloadInit
    /\ DevInit
    /\ fs \in RepoTrees
    /\ watched = {}
    /\ notify_rx = <<>>
    /\ wpc = "ignore"
    /\ wcur = NoEvent
    /\ wnext = 1
    /\ wsending = Unset
    /\ wShutdown = "none"
    /\ nOps = 0
    /\ unseen = FALSE
    /\ wbefore = {}
    /\ wsent = <<>>
    /\ wdropped = {}
    /\ wskipped = {}
    /\ wfailed = {}

SeedNext ==
    \/ BootIgnoreLoaded
    \/ BootIgnoreFailed
    \/ BootSeedEntry
    \/ BootSeedFailed
    \/ BootSpawn

SpecSeed == SeedInit /\ [][SeedNext]_vars

(* C28: the seed scan honours the ignore filter of the incremental path:   *)
(* when watch() has seeded and spawned the worker, no path is registered   *)
(* that add_paths would reject, the matcher being the project's ignore     *)
(* file plus the built-in rule for .git.                                   *)
C28_SeedHonoursIgnoreFilter ==
    wpc = "select" => \A p \in watched : ~IsIgnore(p, IsDir(p))

(* C19: watch() returns an error and spawns no worker when the ignore file *)
(* cannot be loaded or an entry of the seed scan fails: the failure ends   *)
(* watch() at once, the worker is spawned only after every entry has been  *)
(* registered, and after the error nothing is watched and no worker ever   *)
(* runs.  Once the worker is spawned it never turns into a failure of      *)
(* watch(), and it ends only by taking the shutdown signal, whatever       *)
(* notification errors and failed watch additions it has met.              *)
C19_StartupFailsWorkerEndures ==
    /\ [](wpc \in {"ignore", "seed"} => wfailed = {})
    /\ [](wpc = "failed" => wreleased /\ ~ENABLED WatcherStep)
    /\ [][/\ wpc = "failed" => wpc' = "failed"
          /\ (~Spawned /\ Spawned') => (wpc = "seed" /\ SeedLeft = {} /\ wpc' = "select")
          /\ Spawned => Spawned'
          /\ (wpc # "done" /\ wpc' = "done")
                => (wpc = "select" /\ wShutdown = "requested")
          /\ (wpc = "forward" /\ (wcur.kind = "Error" \/ wfailed # {}))
                => wpc' \in {"forward", "send", "select"}]_vars

\* The seed scan failed after it had registered a part of the tree.
C19_Witness ==
    /\ wpc = "failed"
    /\ wfailed # {}
    /\ wfailed # {Project \o <<".gitignore">>}
    /\ watched # {}
    /\ wreleased

----------------------------------------------------------------------------
(* Specification of the classifier alone: any path of bounded depth, under *)
(* the project or not, is classified once.                                 *)

\* Longest project-relative path, in components.
MaxDepth == 3

ClassifyNames ==
    {"index.html", "assets", "main.sass", "main.scss", "main.css",
     "sass", "scss", "css", "src", "logo.png"}

RelPaths == UNION {[1..n -> ClassifyNames] : n \in 0..MaxDepth}

ClassifyInputs == {root \o rel : root \in {Project, Elsewhere}, rel \in RelPaths}

ClassifyInit ==
    /\ cpath \in ClassifyInputs
    /\ cres = Unset
    /\ RebuildIdle
    /\ ChannelsInit
    /\ DebouncerInit
    /\ WatcherInit
    /\ ReloadInit
    /\ DevInit

Classify ==
    /\ cres = Unset
    /\ cres' = to_build_trigger(cpath)
    /\ UNCHANGED <<cpath, bvars, rvars, pvars, change_ch, dvars, wvars>>

ClassifyNext == Classify

SpecClassify == ClassifyInit /\ [][ClassifyNext]_vars

----------------------------------------------------------------------------
(* C1: every absolute path under the project root gets exactly one         *)
(* category, by the first matching rule: Html iff the relative path is     *)
(* index.html; else Css iff it is assets/main.{sass,scss,css} or lies      *)
(* under assets/{sass,scss,css}; else Static with the unchanged absolute   *)
(* path iff it lies under assets; else Rust.  "Lies under d" is            *)
(* Path::starts_with: d is a component-wise prefix (d itself included).    *)

C1_Rel == SubSeq(cpath, Len(Project) + 1, Len(cpath))

C1_IsIndex == C1_Rel = <<"index.html">>

C1_IsStylesheet ==
    \/ C1_Rel \in {<<"assets", m>> : m \in {"main.sass", "main.scss", "main.css"}}
    \/ \E d \in {"sass", "scss", "css"} :
          /\ Len(C1_Rel) >= 2
          /\ C1_Rel[1] = "assets"
          /\ C1_Rel[2] = d

C1_UnderAssets == Len(C1_Rel) >= 1 /\ C1_Rel[1] = "assets"

C1_Classification ==
    (cres # Unset /\ Len(cpath) >= 1 /\ cpath[1] = Project[1]) =>
        /\ Tag(cres) \in {"Html", "Css", "Static", "Rust"}
        /\ (cres = Html) <=> C1_IsIndex
        /\ (cres = Css) <=> (~C1_IsIndex /\ C1_IsStylesheet)
        /\ (Tag(cres) = "Static") <=>
               (~C1_IsIndex /\ ~C1_IsStylesheet /\ C1_UnderAssets)
        /\ (Tag(cres) = "Static") => (StaticPath(cres) = cpath)
        /\ (cres = Rust) <=>
               (~C1_IsIndex /\ ~C1_IsStylesheet /\ ~C1_UnderAssets)

C1_Witness ==
    /\ cpath = Project \o <<"assets", "logo.png">>
    /\ cres = Static(Project \o <<"assets", "logo.png">>)

----------------------------------------------------------------------------
(* rebuild (main.rs): the build steps run for one debounced change.  Each  *)
(* build step either succeeds or fails; which steps fail is drawn with the *)
(* arguments.                                                              *)

CssModes == {Sass, Tailwind}

\* The changes dev hands to rebuild: what the debouncer emits.
RebuildChanges == DebounceKeys \cup AssetKeys

\* build::tailwind, build::index, build::sass, build::asset for the path
\* below the project, and build::rust.
BuildTailwind == <<"tailwind">>
BuildIndex == <<"index">>
BuildSass == <<"sass">>
BuildAsset(rel) == <<"asset">> \o rel
BuildRust == <<"rust">>

BuildSteps ==
    {BuildTailwind, BuildIndex, BuildSass, BuildRust}
        \cup {BuildAsset(StripPrefix(p, Project).rest) : p \in AssetFiles}

\* A slip: Tailwind run for changes of stylesheets only.
NeedsTailwindCssOnly(mode, change) == mode = Tailwind /\ change = Css

\* css_mode == CssMode::Tailwind && matches!(change, Html | Css | Rust).
NeedsTailwind(mode, change) == mode = Tailwind /\ change \in {Html, Css, Rust}

RebuildInit ==
    /\ cpath = Project
    /\ cres = Unset
    /\ ChannelsInit
    /\ DebouncerInit
    /\ WatcherInit
    /\ ReloadInit
    /\ DevInit
    /\ css_mode \in CssModes
    /\ rchange \in RebuildChanges
    /\ rfail \in SUBSET BuildSteps
    /\ rsteps = <<>>
    /\ rpc = "tailwind"
    /\ rres = Unset

\* A build step is run; its error is returned by the ? operator, and the
\* call goes on at `next` otherwise.
RunStep(step, next) ==
    /\ rsteps' = Append(rsteps, step)
    /\ IF step \in rfail
       THEN rres' = "Err" /\ rpc' = "done"
       ELSE IF next = "done"
            THEN rres' = "Ok" /\ rpc' = "done"
            ELSE rres' = rres /\ rpc' = next

\* The if before the match: the Tailwind build, or nothing.
RebuildTailwind ==
    /\ rpc = "tailwind"
    /\ IF NeedsTailwind(css_mode, rchange)
       THEN RunStep(BuildTailwind, "match")
       ELSE rpc' = "match" /\ UNCHANGED <<rsteps, rres>>
    /\ UNCHANGED <<cvars, css_mode, rchange, rfail, change_ch, dvars, wvars, rvars, pvars>>

\* match change { .. } and the final Ok(()).
RebuildMatch ==
    /\ rpc = "match"
    /\ CASE rchange = Html -> RunStep(BuildIndex, "done")
         [] rchange = Css ->
                IF css_mode = Sass
                THEN RunStep(BuildSass, "done")
                ELSE rres' = "Ok" /\ rpc' = "done" /\ UNCHANGED rsteps
         [] rchange = Rust -> RunStep(BuildRust, "done")
         [] OTHER ->
                LET stripped == StripPrefix(StaticPath(rchange), Project) IN
                IF stripped.ok
                THEN RunStep(BuildAsset(stripped.rest), "done")
                ELSE rres' = "Err" /\ rpc' = "done" /\ UNCHANGED rsteps
    /\ UNCHANGED <<cvars, css_mode, rchange, rfail, change_ch, dvars, wvars, rvars, pvars>>

RebuildNext == RebuildTailwind \/ RebuildMatch

SpecRebuild == RebuildInit /\ [][RebuildNext]_vars

\* The steps the change calls for, in order.
C40_Planned ==
    (IF css_mode = Tailwind /\ Tag(rchange) \in {"Html", "Css", "Rust"}
     THEN <<BuildTailwind>> ELSE <<>>)
    \o (IF Tag(rchange) = "Html" THEN <<BuildIndex>>
        ELSE IF Tag(rchange) = "Css"
             THEN (IF css_mode = Sass THEN <<BuildSass>> ELSE <<>>)
        ELSE IF Tag(rchange) = "Rust" THEN <<BuildRust>>
        ELSE <<BuildAsset(SubSeq(StaticPath(rchange), Len(Project) + 1,
                                 Len(StaticPath(rchange))))>>)

\* The planned steps before the first one that fails.
C40_Passing ==
    {n \in 0..Len(C40_Planned) : \A i \in 1..n : C40_Planned[i] \notin rfail}

C40_LastPassing == CHOOSE n \in C40_Passing : \A m \in C40_Passing : m <= n

(* C40: rebuild runs, in this order, the Tailwind build iff the mode is    *)
(* Tailwind and the change is Html, Css or Rust, and then the index for    *)
(* Html, the Sass build for Css iff the mode is Sass, the one asset for    *)
(* Static(path) and the WASM build for Rust; it runs the planned steps up  *)
(* to and including the first that fails, returns Err when one failed and  *)
(* Ok when none did, and while it is running the steps run so far are the  *)
(* first of the planned ones.                                              *)
C40_RebuildSteps ==
    /\ Len(rsteps) <= Len(C40_Planned)
    /\ rsteps = SubSeq(C40_Planned, 1, Len(rsteps))
    /\ rpc = "done" =>
          IF C40_LastPassing = Len(C40_Planned)
          THEN rsteps = C40_Planned /\ rres = "Ok"
          ELSE rsteps = SubSeq(C40_Planned, 1, C40_LastPassing + 1) /\ rres = "Err"

\* A change of Rust code in a Tailwind project: the Tailwind build ran and
\* the WASM build after it failed.
C40_Witness ==
    /\ rpc = "done"
    /\ css_mode = Tailwind
    /\ rchange = Rust
    /\ rsteps = <<BuildTailwind, BuildRust>>
    /\ rres = "Err"

====
